---------------------------- MODULE Spec2Model ----------------------------
(***************************************************************************)
(* A model of the rose regular-expression engine: the parser               *)
(* (src/parse.rs), the character-class algebra                             *)
(* (src/src/rose/charclass/mod.rs), the two compilers (the byte-code       *)
(* compiler src/src/rose/compile.rs and the graph compiler                 *)
(* src/src/compile.rs) and the Pike-style virtual machine (src/src/vm.rs), *)
(* driven by the facade Regex::matches (src/src/lib.rs).                   *)
(*                                                                         *)
(* Characters are Unicode code points (integers); a string is a sequence   *)
(* of code points.  A Rust Option is a sequence of length 0 (None) or 1    *)
(* (Some).  An operation that can fail (fail!, assert!, expect, unwrap)    *)
(* returns a record whose field err holds the failure message, or "" when  *)
(* the operation completed.                                                *)
(***************************************************************************)
EXTENDS Integers, Sequences, FiniteSets, TLC

(***************************************************************************)
(* Characters and options                                                  *)
(***************************************************************************)

\* Code points of the characters the patterns and inputs of the model use.
Ord ==
    ("a" :> 97) @@ ("b" :> 98) @@ ("c" :> 99) @@ ("x" :> 120) @@ ("z" :> 122)
    @@ ("0" :> 48) @@ ("1" :> 49) @@ ("2" :> 50) @@ ("3" :> 51) @@ ("9" :> 57)
    @@ ("|" :> 124) @@ ("(" :> 40) @@ (")" :> 41) @@ ("[" :> 91) @@ ("]" :> 93)
    @@ ("{" :> 123) @@ ("}" :> 125) @@ ("?" :> 63) @@ ("*" :> 42) @@ ("+" :> 43)
    @@ ("." :> 46) @@ ("\\" :> 92) @@ ("^" :> 94) @@ ("-" :> 45) @@ ("," :> 44)
    @@ (":" :> 58) @@ ("#" :> 35) @@ ("=" :> 61) @@ ("!" :> 33)
    @@ ("n" :> 110) @@ ("r" :> 114) @@ ("t" :> 116) @@ ("d" :> 100)
    @@ ("s" :> 115) @@ ("w" :> 119) @@ ("D" :> 68) @@ ("S" :> 83)
    @@ ("W" :> 87) @@ ("u" :> 117) @@ ("U" :> 85) @@ ("F" :> 70) @@ ("f" :> 102)
    @@ ("A" :> 65) @@ ("B" :> 66) @@ ("C" :> 67)

\* The string whose characters are the one-character strings of cs.
Str(cs) == [i \in 1..Len(cs) |-> Ord[cs[i]]]

None == <<>>
Some(x) == <<x>>

\* The result of an operation that failed with the message msg.
Err(msg) == [err |-> msg]

\* Sequencing of operations that can fail: the failure of r ends the
\* computation, otherwise it goes on with K applied to the result r.
Bind(r, K(_)) == IF r.err # "" THEN r ELSE K(r)

\* std::char::MAX
CHAR_MAX == 1114111
\* First and last surrogate code points: not Unicode scalar values.
SURROGATE_LO == 55296
SURROGATE_HI == 57343

\* char::from_u32: None for a surrogate or a value above char::MAX.
char_from_u32(n) ==
    IF n < 0 \/ n > CHAR_MAX \/ (SURROGATE_LO <= n /\ n <= SURROGATE_HI)
    THEN None ELSE Some(n)

(***************************************************************************)
(* Character classes (src/src/rose/charclass/mod.rs)                       *)
(* A range is a pair <<lo, hi>>; a class is its sequence of ranges.        *)
(***************************************************************************)

lo(r) == r[1]
hi(r) == r[2]
min(x, y) == IF x <= y THEN x ELSE y
max(x, y) == IF x >= y THEN x ELSE y

\* prev_char / next_char: char::from_u32(c -/+ 1).unwrap(); None models the
\* failed unwrap (c - 1 underflows u32 at c = 0).
prev_char(c) == char_from_u32(c - 1)
next_char(c) == char_from_u32(c + 1)

\* The comparator of CharClass::new: start ascending, end descending.
RangeLess(a, b) == lo(a) < lo(b) \/ (lo(a) = lo(b) /\ hi(a) > hi(b))

RECURSIVE InsertSorted(_, _)
InsertSorted(sorted, r) ==
    IF sorted = <<>> THEN <<r>>
    ELSE IF RangeLess(r, Head(sorted)) THEN <<r>> \o sorted
    ELSE <<Head(sorted)>> \o InsertSorted(Tail(sorted), r)

\* r.sort_by(...): a stable sort, here by insertion (elements that compare
\* Equal are identical pairs, so every stable sort gives the same sequence).
RECURSIVE sort_by(_)
sort_by(r) ==
    IF r = <<>> THEN <<>>
    ELSE InsertSorted(sort_by(SubSeq(r, 1, Len(r) - 1)), r[Len(r)])

\* The coalescing loop of CharClass::new, with 1-based cursor and i.
RECURSIVE Coalesce(_, _, _)
Coalesce(r, cursor, i) ==
    IF i > Len(r) THEN [err |-> "", ranges |-> SubSeq(r, 1, cursor)]
    ELSE IF hi(r[cursor]) = CHAR_MAX
    THEN [err |-> "", ranges |-> SubSeq(r, 1, cursor)]
    ELSE LET nxt == next_char(hi(r[cursor])) IN
         IF nxt = None
         THEN Err("called Option::unwrap() on a None value")
         ELSE IF lo(r[i]) <= nxt[1]
         THEN Coalesce([r EXCEPT ![cursor] =
                            << min(lo(r[cursor]), lo(r[i])),
                               max(hi(r[cursor]), hi(r[i])) >>],
                       cursor, i + 1)
         ELSE Coalesce([r EXCEPT ![cursor + 1] = r[i]], cursor + 1, i + 1)

\* CharClass::new
CharClass_new(r) ==
    IF \E k \in 1..Len(r) : lo(r[k]) > hi(r[k])
    THEN Err("invalid range")
    ELSE IF Len(r) > 0 THEN Coalesce(sort_by(r), 1, 2)
    ELSE Err("char class cannot be empty")

from_char(c) == CharClass_new(<< <<c, c>> >>)
from_range(l, h) == CharClass_new(<< <<l, h>> >>)

RECURSIVE Flatten(_)
Flatten(classes) ==
    IF classes = <<>> THEN <<>> ELSE Head(classes) \o Flatten(Tail(classes))

\* CharClass::combine: classes is a sequence of range lists.
combine(classes) == CharClass_new(Flatten(classes))

\* CharClass::to_char
to_char(ranges) ==
    IF Len(ranges) = 1 /\ lo(ranges[1]) = hi(ranges[1])
    THEN Some(lo(ranges[1])) ELSE None

\* A bsearch whose upper half starts at the probed index, not after it.
RECURSIVE bsearch_from_ix(_, _, _, _)
bsearch_from_ix(ranges, c, base, lim) ==
    IF lim = 0 THEN None
    ELSE LET ix == base + (lim \div 2)
             r  == ranges[ix + 1]
         IN IF c < lo(r) THEN bsearch_from_ix(ranges, c, base, lim \div 2)
            ELSE IF hi(r) < c THEN bsearch_from_ix(ranges, c, ix, (lim - 1) \div 2)
            ELSE Some(ix)

\* The slice method bsearch that CharClass::includes calls, with the
\* comparator of includes; base is 0-based as in the library.
RECURSIVE bsearch(_, _, _, _)
bsearch(ranges, c, base, lim) ==
    IF lim = 0 THEN None
    ELSE LET ix == base + (lim \div 2)
             r  == ranges[ix + 1]
         IN IF c < lo(r) THEN bsearch(ranges, c, base, lim \div 2)
            ELSE IF hi(r) < c THEN bsearch(ranges, c, ix + 1, (lim - 1) \div 2)
            ELSE Some(ix)

\* CharClass::includes
includes(ranges, c) == bsearch(ranges, c, 0, Len(ranges)) # None

\* The loop of CharClass::negate over ranges.slice_from(1).
RECURSIVE NegateLoop(_, _, _, _)
NegateLoop(ranges, i, last_hi, result) ==
    IF i > Len(ranges)
    THEN IF last_hi # CHAR_MAX
         THEN LET n == next_char(last_hi) IN
              IF n = None
              THEN Err("called Option::unwrap() on a None value")
              ELSE [err |-> "", ranges |-> Append(result, <<n[1], CHAR_MAX>>)]
         ELSE [err |-> "", ranges |-> result]
    ELSE LET n == next_char(last_hi)
             p == prev_char(lo(ranges[i]))
         IN IF n = None \/ p = None
            THEN Err("called Option::unwrap() on a None value")
            ELSE NegateLoop(ranges, i + 1, hi(ranges[i]),
                            Append(result, <<n[1], p[1]>>))

\* CharClass::negate
negate(ranges) ==
    IF Len(ranges) = 0
    THEN Err("index out of bounds")
    ELSE LET first_lo == lo(ranges[1]) IN
         IF first_lo # 0
         THEN LET p == prev_char(first_lo) IN
              IF p = None
              THEN Err("called Option::unwrap() on a None value")
              ELSE NegateLoop(ranges, 2, hi(ranges[1]), << <<0, p[1]>> >>)
         ELSE NegateLoop(ranges, 2, hi(ranges[1]), <<>>)

\* The static classes of src/src/rose/charclass/ascii.rs.
ascii_digit == << <<48, 57>> >>
ascii_punct == << <<33, 47>>, <<58, 64>>, <<91, 96>>, <<123, 126>> >>
ascii_space == << <<9, 13>>, <<32, 32>> >>
ascii_word  == << <<48, 57>>, <<65, 90>>, <<95, 95>>, <<97, 122>> >>


(***************************************************************************)
(* The AST (src/parse.rs, Expr and Greedy)                                 *)
(***************************************************************************)

Empty == [tag |-> "Empty"]
Range(l, h) == [tag |-> "Range", lo |-> l, hi |-> h]
Concatenate(inners) == [tag |-> "Concatenate", inners |-> inners]
Alternate(inners) == [tag |-> "Alternate", inners |-> inners]
Repeat(inner, mn, mx, greedy) ==
    [tag |-> "Repeat", inner |-> inner, min |-> mn, max |-> mx, greedy |-> greedy]
Capture(inner) == [tag |-> "Capture", inner |-> inner]

\* static REPEAT_MAX
REPEAT_MAX == 100000

(***************************************************************************)
(* The parser state (src/parse.rs, State)                                  *)
(* A parsing function returns the new state s and its value v.             *)
(***************************************************************************)

Ok(s, v) == [err |-> "", s |-> s, v |-> v]

State_new(input) == [input |-> input, prev |-> None]

has_input(s) == Len(s.input) > 0

\* An advance that does not record the position it leaves.
advance_unrecorded(s) ==
    IF has_input(s)
    THEN [s |-> [input |-> Tail(s.input), prev |-> s.prev],
          c |-> Some(Head(s.input))]
    ELSE [s |-> [input |-> s.input, prev |-> s.prev], c |-> None]

\* State::advance: the new state and the character read (an Option).
advance(s) ==
    IF has_input(s)
    THEN [s |-> [input |-> Tail(s.input), prev |-> Some(s.input)],
          c |-> Some(Head(s.input))]
    ELSE [s |-> [input |-> s.input, prev |-> Some(s.input)], c |-> None]

\* State::retreat
retreat(s) ==
    IF s.prev = None THEN Err("nowhere to retreat")
    ELSE Ok([input |-> s.prev[1], prev |-> None], <<>>)

\* The character read is ch.
Is(a, ch) == a.c # None /\ a.c[1] = Ord[ch]

(***************************************************************************)
(* Repetitions                                                             *)
(***************************************************************************)

\* p_number: the loop, with the accumulator acc (an Option).
RECURSIVE p_number_loop(_, _)
p_number_loop(s, acc) ==
    LET a == advance(s) IN
    IF a.c # None /\ Ord["0"] <= a.c[1] /\ a.c[1] <= Ord["9"]
    THEN IF acc = None THEN p_number_loop(a.s, Some(a.c[1] - Ord["0"]))
         ELSE IF 10 * acc[1] + (a.c[1] - Ord["0"]) <= REPEAT_MAX
         THEN p_number_loop(a.s, Some(10 * acc[1] + (a.c[1] - Ord["0"])))
         ELSE Err("repeat must be <= 100000")
    ELSE Bind(retreat(a.s), LAMBDA r : Ok(r.s, acc))

p_number(s) == p_number_loop(s, None)

\* A check_repeat that lets every interval through.
check_repeat_lax(mn, mx) == TRUE

\* check_repeat
check_repeat(mn, mx) == IF mx # None THEN mn <= mx[1] ELSE TRUE

\* The Some(',') arm of p_repetition, after the first number n was read.
RepetitionInterval(n, s) ==
    Bind(p_number(s), LAMBDA m :
        LET b == advance(m.s) IN
        IF Is(b, "}")
        THEN IF check_repeat(IF n = None THEN 0 ELSE n[1], m.v)
             THEN Ok(b.s, << IF n = None THEN 0 ELSE n[1], m.v >>)
             ELSE Err("bad repeat interval")
        ELSE Err("invalid repeat"))

\* A p_repetition that takes {} for {,}.
p_repetition_empty(s) ==
    Bind(p_number(s), LAMBDA n :
        LET a == advance(n.s) IN
        IF Is(a, ",") THEN RepetitionInterval(n.v, a.s)
        ELSE IF Is(a, "}")
        THEN IF n.v # None THEN Ok(a.s, <<n.v[1], Some(n.v[1])>>)
             ELSE Ok(a.s, <<0, None>>)
        ELSE Err("invalid repeat"))

\* p_repetition: v is the pair <<min, max>>.
p_repetition(s) ==
    Bind(p_number(s), LAMBDA n :
        LET a == advance(n.s) IN
        IF Is(a, ",") THEN RepetitionInterval(n.v, a.s)
        ELSE IF Is(a, "}")
        THEN IF n.v # None THEN Ok(a.s, <<n.v[1], Some(n.v[1])>>)
             ELSE Err("invalid repeat")
        ELSE Err("invalid repeat"))

\* The last of the items, and the items before it.
Last(items) == items[Len(items)]
Front(items) == SubSeq(items, 1, Len(items) - 1)

\* A `?` arm that wraps a Greedy Repeat as it wraps any other expression.
question_mark_wraps(s, items) ==
    IF items = <<>> THEN Err("nothing to repeat")
    ELSE IF Last(items).tag = "Repeat" /\ Last(items).greedy = "NonGreedy"
    THEN Err("multiple repeat")
    ELSE Ok(s, Append(Front(items), Repeat(Last(items), 0, Some(1), "Greedy")))

\* pop_expr followed by the match of the '?' arm of p_concatenate; v is
\* the new items.
question_mark(s, items) ==
    IF items = <<>> THEN Err("nothing to repeat")
    ELSE IF Last(items).tag = "Repeat" /\ Last(items).greedy = "NonGreedy"
    THEN Err("multiple repeat")
    ELSE IF Last(items).tag = "Repeat"
    THEN Ok(s, Append(Front(items),
                      Repeat(Last(items).inner, Last(items).min, Last(items).max,
                             "NonGreedy")))
    ELSE Ok(s, Append(Front(items), Repeat(Last(items), 0, Some(1), "Greedy")))

\* add_repeat; v is the new items.
add_repeat(s, items, mn, mx) ==
    IF items = <<>> THEN Err("nothing to repeat")
    ELSE IF Last(items).tag = "Repeat" THEN Err("multiple repeat")
    ELSE Ok(s, Append(Front(items), Repeat(Last(items), mn, mx, "Greedy")))

push_ignore_empty(items, e) == IF e.tag = "Empty" THEN items ELSE Append(items, e)

\* cc_to_expr
cc_to_expr(ranges) ==
    Alternate([i \in 1..Len(ranges) |-> Range(lo(ranges[i]), hi(ranges[i]))])

(***************************************************************************)
(* Escapes and character classes; v is a class (its range list)            *)
(***************************************************************************)

\* char::to_digit(16)
to_digit16(c) ==
    IF 48 <= c /\ c <= 57 THEN Some(c - 48)
    ELSE IF 97 <= c /\ c <= 102 THEN Some(c - 87)
    ELSE IF 65 <= c /\ c <= 70 THEN Some(c - 55)
    ELSE None

\* The class cc, a result of the character-class algebra, as the value of a
\* parsing function that leaves the state s.
CcResult(s, cc) == Bind(cc, LAMBDA k : Ok(s, k.ranges))

\* p_hex_escape: the loop, with n digits left to read.
RECURSIVE p_hex_loop(_, _, _)
p_hex_loop(s, n, acc) ==
    IF n = 0
    THEN IF char_from_u32(acc) = None THEN Err("character out of range")
         ELSE CcResult(s, from_char(char_from_u32(acc)[1]))
    ELSE LET a == advance(s) IN
         IF a.c = None THEN Err("invalid escape")
         ELSE IF to_digit16(a.c[1]) = None THEN Err("invalid escape")
         ELSE p_hex_loop(a.s, n - 1, 16 * acc + to_digit16(a.c[1])[1])

p_hex_escape(s, n_digits) == p_hex_loop(s, n_digits, 0)

\* The arms of p_escape for the character c, read in state s.
EscapeOf(s, c) ==
    CASE c = Ord["n"] -> CcResult(s, from_char(10))
      [] c = Ord["r"] -> CcResult(s, from_char(13))
      [] c = Ord["t"] -> CcResult(s, from_char(9))
      [] c = Ord["d"] -> Ok(s, ascii_digit)
      [] c = Ord["s"] -> Ok(s, ascii_space)
      [] c = Ord["w"] -> Ok(s, ascii_word)
      [] c = Ord["D"] -> CcResult(s, negate(ascii_digit))
      [] c = Ord["S"] -> CcResult(s, negate(ascii_space))
      [] c = Ord["W"] -> CcResult(s, negate(ascii_word))
      [] c = Ord["x"] -> p_hex_escape(s, 2)
      [] c = Ord["u"] -> p_hex_escape(s, 4)
      [] c = Ord["U"] -> p_hex_escape(s, 8)
      [] OTHER -> IF includes(ascii_punct, c) THEN CcResult(s, from_char(c))
                  ELSE Err("invalid escape")

\* p_escape
p_escape(s) ==
    LET a == advance(s) IN
    IF a.c = None THEN Err("invalid escape") ELSE EscapeOf(a.s, a.c[1])

\* A parsing result with its value wrapped in Some.
SomeOf(r) == Bind(r, LAMBDA k : Ok(k.s, Some(k.v)))

RECURSIVE p_charclass(_)
RECURSIVE p_charclass_loop(_, _)
RECURSIVE p_charclass_token(_)

\* p_charclass_token: v is an Option of a class.
p_charclass_token(s) ==
    LET a == advance(s) IN
    IF a.c = None THEN Ok(a.s, None)
    ELSE CASE a.c[1] = Ord["]"] -> Bind(retreat(a.s), LAMBDA r : Ok(r.s, None))
           [] a.c[1] = Ord["["] -> SomeOf(p_charclass(a.s))
           [] a.c[1] = Ord["\\"] -> SomeOf(p_escape(a.s))
           [] OTHER -> SomeOf(CcResult(a.s, from_char(a.c[1])))

\* The '-' arm of p_charclass: t is the token after the '-'.
DashArm(t, classes) ==
    IF t.v # None
    THEN IF classes # <<>>
         THEN IF to_char(Last(classes)) = None \/ to_char(t.v[1]) = None
              THEN Err("bad character range")
              ELSE Bind(from_range(to_char(Last(classes))[1], to_char(t.v[1])[1]),
                        LAMBDA cc : Ok(t.s, Append(Front(classes), cc.ranges)))
         ELSE Ok(t.s, Append(classes, t.v[1]))
    ELSE Bind(from_char(Ord["-"]), LAMBDA cc : Ok(t.s, Append(classes, cc.ranges)))

\* The last arm of p_charclass: t is the token read after the retreat.
TokenArm(t, classes) ==
    IF t.v = None THEN Err("invalid char class")
    ELSE Ok(t.s, Append(classes, t.v[1]))

\* The loop of p_charclass; v is the list of the classes collected.
p_charclass_loop(s, classes) ==
    LET a == advance(s) IN
    IF a.c = None THEN Err("unexpected end of char class")
    ELSE CASE a.c[1] = Ord["]"] -> Ok(a.s, classes)
           [] a.c[1] = Ord["-"] ->
                Bind(Bind(p_charclass_token(a.s), LAMBDA t : DashArm(t, classes)),
                     LAMBDA n : p_charclass_loop(n.s, n.v))
           [] OTHER ->
                Bind(Bind(Bind(retreat(a.s), LAMBDA r : p_charclass_token(r.s)),
                          LAMBDA t : TokenArm(t, classes)),
                     LAMBDA n : p_charclass_loop(n.s, n.v))

\* The end of p_charclass: combine, then negate when the class began with ^.
CombineArm(neg, l) ==
    Bind(combine(l.v), LAMBDA cc :
        IF neg THEN CcResult(l.s, negate(cc.ranges)) ELSE Ok(l.s, cc.ranges))

\* p_charclass
p_charclass(s) ==
    LET a == advance(s) IN
    Bind(Bind(IF Is(a, "^") THEN Ok(a.s, <<>>) ELSE retreat(a.s),
              LAMBDA r : p_charclass_loop(r.s, <<>>)),
         LAMBDA l : CombineArm(Is(a, "^"), l))

(***************************************************************************)
(* Alternation, concatenation and groups; v is an Expr                     *)
(***************************************************************************)

\* p_comment
RECURSIVE p_comment(_)
p_comment(s) ==
    LET a == advance(s) IN
    IF a.c # None /\ a.c[1] # Ord[")"] THEN p_comment(a.s)
    ELSE Bind(retreat(a.s), LAMBDA r : Ok(r.s, Empty))

\* The final match of p_alternate and of p_concatenate on the items.
AlternateOf(items) ==
    IF items = <<>> THEN Empty
    ELSE IF Len(items) = 1 THEN items[1] ELSE Alternate(items)
ConcatenateOf(items) ==
    IF items = <<>> THEN Empty
    ELSE IF Len(items) = 1 THEN items[1] ELSE Concatenate(items)

RECURSIVE p_alternate_loop(_, _)
RECURSIVE p_concatenate_loop(_, _)
RECURSIVE p_group(_)

\* The match of p_alternate on the character after a concatenation; the
\* result's more tells whether the loop goes on.
AlternateArm(r, items) ==
    LET a == advance(r.s) IN
    IF a.c = None
    THEN [err |-> "", s |-> a.s, v |-> Append(items, r.v), more |-> FALSE]
    ELSE IF Is(a, ")")
    THEN Bind(retreat(a.s), LAMBDA b :
            [err |-> "", s |-> b.s, v |-> Append(items, r.v), more |-> FALSE])
    ELSE IF Is(a, "|")
    THEN [err |-> "", s |-> a.s, v |-> Append(items, r.v), more |-> TRUE]
    ELSE Err("something bad happened; it's really bad")

p_alternate_loop(s, items) ==
    Bind(Bind(p_concatenate_loop(s, <<>>), LAMBDA r : AlternateArm(r, items)),
         LAMBDA n : IF n.more THEN p_alternate_loop(n.s, n.v)
                    ELSE Ok(n.s, AlternateOf(n.v)))

\* p_alternate
p_alternate(s) == p_alternate_loop(s, <<>>)

\* The arms of the loop of p_concatenate for the character c, read in
\* state s: v is the new items.
ConcatenateArm(s, c, items) ==
    CASE c = Ord["("] ->
            Bind(p_group(s), LAMBDA g : Ok(g.s, push_ignore_empty(items, g.v)))
      [] c = Ord["."] -> Ok(s, Append(items, Range(0, CHAR_MAX)))
      [] c = Ord["\\"] ->
            Bind(p_escape(s), LAMBDA e : Ok(e.s, Append(items, cc_to_expr(e.v))))
      [] c = Ord["["] ->
            Bind(p_charclass(s), LAMBDA e : Ok(e.s, Append(items, cc_to_expr(e.v))))
      [] c = Ord["?"] -> question_mark(s, items)
      [] c = Ord["+"] -> add_repeat(s, items, 1, None)
      [] c = Ord["*"] -> add_repeat(s, items, 0, None)
      [] c = Ord["{"] ->
            Bind(p_repetition(s), LAMBDA p : add_repeat(p.s, items, p.v[1], p.v[2]))
      [] OTHER -> Ok(s, Append(items, Range(c, c)))

\* The loop of p_concatenate.
p_concatenate_loop(s, items) ==
    LET a == advance(s) IN
    IF a.c = None THEN Ok(a.s, ConcatenateOf(items))
    ELSE IF Is(a, "|") \/ Is(a, ")")
    THEN Bind(retreat(a.s), LAMBDA r : Ok(r.s, ConcatenateOf(items)))
    ELSE Bind(ConcatenateArm(a.s, a.c[1], items),
              LAMBDA n : p_concatenate_loop(n.s, n.v))

\* p_concatenate
p_concatenate(s) == p_concatenate_loop(s, <<>>)

\* The first match of p_group: a is the character after the parenthesis.
GroupBody(a) ==
    IF Is(a, "?")
    THEN LET b == advance(a.s) IN
         IF b.c = None THEN Err("unexpected end of pattern")
         ELSE IF Is(b, ":") THEN p_alternate_loop(b.s, <<>>)
         ELSE IF Is(b, "#") THEN p_comment(b.s)
         ELSE Err("unknown extension")
    ELSE Bind(Bind(retreat(a.s), LAMBDA r : p_alternate_loop(r.s, <<>>)),
              LAMBDA e : Ok(e.s, Capture(e.v)))

\* The second match of p_group: the closing parenthesis.
GroupClose(result) ==
    LET z == advance(result.s) IN
    IF Is(z, ")") THEN Ok(z.s, result.v) ELSE Err("mismatched parenthesis")

p_group(s) == Bind(GroupBody(advance(s)), LAMBDA result : GroupClose(result))

\* parse
parse(input) ==
    Bind(p_alternate(State_new(input)), LAMBDA r :
        IF has_input(r.s) THEN Err("unbalanced parenthesis") ELSE r)

(***************************************************************************)
(* The byte-code compiler (src/src/rose/compile.rs)                        *)
(* Code is a sequence of instructions; program counters are 0-based as in  *)
(* the source, so the instruction at pc is code[pc + 1].                   *)
(***************************************************************************)

IEmpty == [op |-> "Empty"]
IRange(l, h) == [op |-> "Range", lo |-> l, hi |-> h]
IJump(there) == [op |-> "Jump", to |-> there]
IFork(other) == [op |-> "Fork", to |-> other]
IGFork(other) == [op |-> "GFork", to |-> other]
IMatch == [op |-> "Match"]

COk(code) == [err |-> "", code |-> code]

\* Inst::replace applied to code[pos]
Inst_replace(code, pos, inst) ==
    IF code[pos + 1].op = "Empty" THEN COk([code EXCEPT ![pos + 1] = inst])
    ELSE Err("unexpected instruction")

\* A make_fork with the two variants exchanged.
make_fork_swapped(greedy, target) ==
    IF greedy = "NonGreedy" THEN IGFork(target) ELSE IFork(target)

\* make_fork
make_fork(greedy, target) ==
    IF greedy = "NonGreedy" THEN IFork(target) ELSE IGFork(target)

\* !greedy
Not(greedy) == IF greedy = "Greedy" THEN "NonGreedy" ELSE "Greedy"

\* The loops that fill a list of placeholders with one instruction.
RECURSIVE ReplaceAll(_, _, _)
ReplaceAll(code, positions, inst) ==
    IF positions = <<>> THEN COk(code)
    ELSE Bind(Inst_replace(code, Head(positions), inst),
              LAMBDA r : ReplaceAll(r.code, Tail(positions), inst))

\* The loop of compile_alternate over forks.iter().zip(ends.iter()).
RECURSIVE ReplaceForks(_, _, _)
ReplaceForks(code, forks, ends) ==
    IF forks = <<>> \/ ends = <<>> THEN COk(code)
    ELSE Bind(Inst_replace(code, Head(forks), IFork(Head(ends))),
              LAMBDA r : ReplaceForks(r.code, Tail(forks), Tail(ends)))

RECURSIVE compile_expr(_, _)
RECURSIVE CompileAll(_, _)
RECURSIVE CompileBranches(_, _, _, _, _)
RECURSIVE CompileTimes(_, _, _)
RECURSIVE CompileOptionals(_, _, _, _)
RECURSIVE CompileLoop(_, _, _, _)
RECURSIVE compile_repeat(_, _, _, _, _)

\* The Concatenate arm: every inner in order.
CompileAll(code, inners) ==
    IF inners = <<>> THEN COk(code)
    ELSE Bind(compile_expr(code, Head(inners)),
              LAMBDA r : CompileAll(r.code, Tail(inners)))

\* The first loop of compile_alternate, over all the inners but the last;
\* the placeholder of the fork is at Len(code), that of the jump at the end
\* of the branch's code.
CompileBranches(code, inners, forks, jumps, ends) ==
    IF inners = <<>>
    THEN [err |-> "", code |-> code, forks |-> forks, jumps |-> jumps, ends |-> ends]
    ELSE Bind(compile_expr(Append(code, IEmpty), Head(inners)),
              LAMBDA r : CompileBranches(Append(r.code, IEmpty), Tail(inners),
                                         Append(forks, Len(code)),
                                         Append(jumps, Len(r.code)),
                                         Append(ends, Len(r.code) + 1)))

\* Patching loops that send every jump to the start of the last branch.
PatchBranchesToLast(code, forks, jumps, ends) ==
    Bind(ReplaceForks(code, forks, ends),
         LAMBDA f : ReplaceAll(f.code, jumps, IJump(Last(ends))))

\* The two patching loops of compile_alternate.
PatchBranches(code, forks, jumps, ends) ==
    Bind(ReplaceForks(code, forks, ends),
         LAMBDA f : ReplaceAll(f.code, jumps, IJump(Len(f.code))))

\* compile_alternate; inners.len()-1 underflows on an empty list and the
\* slice then fails its bounds check.
compile_alternate(code, inners) ==
    IF inners = <<>> THEN Err("assertion failed: end <= self.len()")
    ELSE Bind(CompileBranches(code, Front(inners), <<>>, <<>>, <<>>), LAMBDA b :
            Bind(compile_expr(b.code, Last(inners)),
                 LAMBDA l : PatchBranches(l.code, b.forks, b.jumps, b.ends)))

\* for _ in range(0, times) { compile_expr(code, inner) }
CompileTimes(code, inner, times) ==
    IF times <= 0 THEN COk(code)
    ELSE Bind(compile_expr(code, inner),
              LAMBDA r : CompileTimes(r.code, inner, times - 1))

\* The same loop over the inclusive range from min to max_.
RECURSIVE CompileOptionalsInclusive(_, _, _, _)
CompileOptionalsInclusive(code, inner, times, forks) ==
    IF times < 0 THEN [err |-> "", code |-> code, forks |-> forks]
    ELSE Bind(compile_expr(Append(code, IEmpty), inner),
              LAMBDA r : CompileOptionalsInclusive(r.code, inner, times - 1,
                                                   Append(forks, Len(code))))

\* for _ in range(min, max_) { forks.push(placeholder!()); compile_expr }
CompileOptionals(code, inner, times, forks) ==
    IF times <= 0 THEN [err |-> "", code |-> code, forks |-> forks]
    ELSE Bind(compile_expr(Append(code, IEmpty), inner),
              LAMBDA r : CompileOptionals(r.code, inner, times - 1,
                                          Append(forks, Len(code))))

\* The loop of the (_, None) arm, which keeps the last loop_start.
CompileLoop(code, inner, times, loop_start) ==
    IF times <= 0 THEN [err |-> "", code |-> code, loop_start |-> loop_start]
    ELSE Bind(compile_expr(code, inner),
              LAMBDA r : CompileLoop(r.code, inner, times - 1, Len(code)))

\* compile_repeat
compile_repeat(code, inner, mn, mx, greedy) ==
    IF mx # None
    THEN Bind(CompileTimes(code, inner, mn), LAMBDA m :
            Bind(CompileOptionals(m.code, inner, mx[1] - mn, <<>>), LAMBDA o :
                ReplaceAll(o.code, o.forks, make_fork(Not(greedy), Len(o.code)))))
    ELSE IF mn = 0
    THEN Bind(compile_repeat(Append(code, IEmpty), inner, 1, None, greedy),
              LAMBDA r : Inst_replace(r.code, Len(code),
                                      make_fork(Not(greedy), Len(r.code))))
    ELSE Bind(CompileLoop(code, inner, mn, 0), LAMBDA l :
            Inst_replace(Append(l.code, IEmpty), Len(l.code),
                         make_fork(greedy, l.loop_start)))

\* compile_expr
compile_expr(code, e) ==
    CASE e.tag = "Empty" -> COk(code)
      [] e.tag = "Range" -> COk(Append(code, IRange(e.lo, e.hi)))
      [] e.tag = "Concatenate" -> CompileAll(code, e.inners)
      [] e.tag = "Alternate" -> compile_alternate(code, e.inners)
      [] e.tag = "Repeat" -> compile_repeat(code, e.inner, e.min, e.max, e.greedy)
      [] e.tag = "Capture" -> Err("captures not implemented yet")

\* compile (byte code)
compile_code(e) ==
    Bind(compile_expr(<<>>, e), LAMBDA r : COk(Append(r.code, IMatch)))

(***************************************************************************)
(* The graph compiler (src/src/compile.rs)                                 *)
(* A state is a record [want, exits]; state indices and edge indices are   *)
(* 0-based as in the source.  A Pos is a pair <<state, exit>>.             *)
(***************************************************************************)

\* std::uint::MAX, the placeholder of a dangling edge: the all-ones word,
\* written here as that bit pattern read as a signed integer.
UINT_MAX == -1

Nothing == [tag |-> "Nothing"]
WRange(l, h) == [tag |-> "Range", lo |-> l, hi |-> h]

\* The builder's states after an operation, and the operation's value.
BOk(states, v) == [err |-> "", states |-> states, v |-> v]

\* Builder::reserve: v is the Pos of the new dangling edge.
reserve(states, index) ==
    BOk([states EXCEPT ![index + 1].exits = Append(@, UINT_MAX)],
        <<index, Len(states[index + 1].exits)>>)

\* Builder::connect
RECURSIVE connect(_, _, _)
connect(states, prev, here) ==
    IF prev = <<>> THEN BOk(states, <<>>)
    ELSE IF states[Head(prev)[1] + 1].exits[Head(prev)[2] + 1] # UINT_MAX
    THEN Err("edge has not yet been connected")
    ELSE connect([states EXCEPT ![Head(prev)[1] + 1].exits[Head(prev)[2] + 1] = here],
                 Tail(prev), here)

\* Builder::push: v is the index of the new state.
push(states, prev, w) ==
    Bind(connect(Append(states, [want |-> w, exits |-> <<>>]), prev, Len(states)),
         LAMBDA r : BOk(r.states, Len(states)))

\* Builder::push_empty
push_empty(states, prev) == push(states, prev, Nothing)

\* Builder::new: v is the initial list of dangling edges.
Builder_new ==
    Bind(reserve(<< [want |-> Nothing, exits |-> <<>>] >>, 0),
         LAMBDA r : BOk(r.states, <<r.v>>))

\* Builder::reify
reify(states, prev) == connect(states, prev, Len(states))

\* The part of compile_optional and of compile_plus that reserves the two
\* edges x and y of the fork and shares them out by greediness:
\* v is <<tails, the other edge>>.
SplitEdges(states, fork, greedy) ==
    Bind(reserve(states, fork), LAMBDA x :
        Bind(reserve(x.states, fork), LAMBDA y :
            IF greedy = "NonGreedy" THEN BOk(y.states, << <<x.v>>, <<y.v>> >>)
            ELSE BOk(y.states, << <<y.v>>, <<x.v>> >>)))

\* tails.push_all_move(r): the result r with tails put before its value.
PushAllMove(tails, r) == Bind(r, LAMBDA k : BOk(k.states, tails \o k.v))

RECURSIVE g_compile_expr(_, _, _)
RECURSIVE GConcat(_, _, _)
RECURSIVE GBranches(_, _, _, _)
RECURSIVE compile_times(_, _, _, _)
RECURSIVE helper(_, _, _, _, _)
RECURSIVE compile_plus(_, _, _, _)
RECURSIVE g_compile_repeat(_, _, _, _, _, _)

\* The Concatenate arm of compile_expr.
GConcat(states, last, inners) ==
    IF inners = <<>> THEN BOk(states, last)
    ELSE Bind(g_compile_expr(states, last, Head(inners)),
              LAMBDA r : GConcat(r.states, r.v, Tail(inners)))

\* The loop of the Alternate arm: every branch starts from the same fork.
GBranches(states, fork, inners, tails) ==
    IF inners = <<>> THEN BOk(states, tails)
    ELSE Bind(g_compile_expr(states, fork, Head(inners)),
              LAMBDA r : GBranches(r.states, fork, Tail(inners), tails \o r.v))

\* compile_times
compile_times(states, prev, inner, times) ==
    IF times <= 0 THEN BOk(states, prev)
    ELSE Bind(g_compile_expr(states, prev, inner),
              LAMBDA r : compile_times(r.states, r.v, inner, times - 1))

\* helper of compile_repeat: compile_optional applied to its closure.
helper(states, prev, inner, count, greedy) ==
    IF count = 0 THEN BOk(states, prev)
    ELSE Bind(push_empty(states, prev), LAMBDA f :
            Bind(SplitEdges(f.states, f.v, greedy), LAMBDA xy :
                PushAllMove(xy.v[1],
                    Bind(g_compile_expr(xy.states, xy.v[2], inner), LAMBDA last :
                        helper(last.states, last.v, inner, count - 1, greedy)))))

\* compile_plus
compile_plus(states, prev, inner, greedy) ==
    Bind(g_compile_expr(states, prev, inner), LAMBDA last :
        Bind(push_empty(last.states, last.v), LAMBDA f :
            Bind(SplitEdges(f.states, f.v, greedy), LAMBDA xy :
                Bind(connect(xy.states, xy.v[2], Len(states)),
                     LAMBDA c : BOk(c.states, xy.v[1])))))

\* compile_optional applied to the closure that calls compile_plus.
compile_optional(states, prev, inner, greedy) ==
    Bind(push_empty(states, prev), LAMBDA f :
        Bind(SplitEdges(f.states, f.v, greedy), LAMBDA xy :
            PushAllMove(xy.v[1], compile_plus(xy.states, xy.v[2], inner, greedy))))

\* compile_repeat of the graph compiler
g_compile_repeat(states, prev, inner, mn, mx, greedy) ==
    IF mx # None
    THEN Bind(compile_times(states, prev, inner, mn),
              LAMBDA last : helper(last.states, last.v, inner, mx[1] - mn, greedy))
    ELSE IF mn = 0 THEN compile_optional(states, prev, inner, greedy)
    ELSE Bind(compile_times(states, prev, inner, mn - 1),
              LAMBDA last : compile_plus(last.states, last.v, inner, greedy))

\* The Alternate arm of compile_expr: one fork state, one reserved edge,
\* handed to every branch.
GAlternate(states, prev, inners) ==
    Bind(push_empty(states, prev), LAMBDA end :
        Bind(reserve(end.states, end.v), LAMBDA fork :
            GBranches(fork.states, <<fork.v>>, inners, <<>>)))

\* compile_expr of the graph compiler: v is the list of dangling exits.
g_compile_expr(states, prev, e) ==
    CASE e.tag = "Empty" -> BOk(states, prev)
      [] e.tag = "Range" ->
            Bind(push(states, prev, WRange(e.lo, e.hi)), LAMBDA end :
                Bind(reserve(end.states, end.v), LAMBDA r : BOk(r.states, <<r.v>>)))
      [] e.tag = "Concatenate" -> GConcat(states, prev, e.inners)
      [] e.tag = "Alternate" -> GAlternate(states, prev, e.inners)
      [] e.tag = "Repeat" ->
            g_compile_repeat(states, prev, e.inner, e.min, e.max, e.greedy)
      [] e.tag = "Capture" -> Err("captures not implemented yet")

\* compile (graph): v is the list of dangling exits handed to reify.
compile_graph(e) ==
    Bind(Builder_new, LAMBDA b :
        Bind(g_compile_expr(b.states, b.v, e),
             LAMBDA tails : Bind(reify(tails.states, tails.v),
                                 LAMBDA r : BOk(r.states, tails.v))))

(***************************************************************************)
(* The virtual machine (src/src/vm.rs)                                     *)
(* A thread is its pc.  A ThreadList is a record [threads, indices].       *)
(***************************************************************************)

\* ThreadList::new
ThreadList_new == [threads |-> <<>>, indices |-> {}]

\* An add that does not look the pc up before it pushes the thread.
ThreadList_add_always(tl, pc) ==
    [threads |-> Append(tl.threads, pc), indices |-> tl.indices \cup {pc}]

\* ThreadList::add
ThreadList_add(tl, pc) ==
    IF pc \in tl.indices THEN tl
    ELSE [threads |-> Append(tl.threads, pc), indices |-> tl.indices \cup {pc}]

\* The thread list after a call of follow, and what the call returned.
FOk(tl, hit) == [err |-> "", tl |-> tl, hit |-> hit]

\* recurse!(a) | recurse!(b): both calls are made, in this order.
RECURSIVE follow(_, _, _, _)
FollowBoth(first, second, code, tl, path) ==
    Bind(follow(first, code, tl, path), LAMBDA a :
        Bind(follow(second, code, a.tl, path),
             LAMBDA b : FOk(b.tl, a.hit \/ b.hit)))

\* follow.  The instructions follow visits depend on the pc alone, never on
\* the thread list, so a call on a pc that a call still on the stack was made
\* on repeats that call for ever: path is the set of the pcs of the calls on
\* the stack, and the recursion that never ends is reported as the failure
\* "stack overflow".  An index outside the code fails the bounds check.
follow(pc, code, tl, path) ==
    IF pc < 0 \/ pc >= Len(code) THEN Err("index out of bounds")
    ELSE IF pc \in path THEN Err("stack overflow")
    ELSE CASE code[pc + 1].op = "Empty" -> follow(pc + 1, code, tl, path \cup {pc})
           [] code[pc + 1].op = "Jump" ->
                follow(code[pc + 1].to, code, tl, path \cup {pc})
           [] code[pc + 1].op = "Fork" ->
                FollowBoth(pc + 1, code[pc + 1].to, code, tl, path \cup {pc})
           [] code[pc + 1].op = "GFork" ->
                FollowBoth(code[pc + 1].to, pc + 1, code, tl, path \cup {pc})
           [] code[pc + 1].op = "Range" -> FOk(ThreadList_add(tl, pc), FALSE)
           [] code[pc + 1].op = "Match" -> FOk(ThreadList_add(tl, pc), TRUE)

\* The fields of a VM (the code is kept apart).
VOk(threads, next, matched) ==
    [err |-> "", threads |-> threads, next |-> next, matched |-> matched]

\* VM::new: what follow returns is dropped and matched stays false.
VM_new(code) ==
    Bind(follow(0, code, ThreadList_new, {}),
         LAMBDA f : VOk(f.tl, ThreadList_new, FALSE))

\* The loop of VM::feed as it would be without its break: an accept sets
\* the flag and the threads after the accepting one are stepped all the same.
RECURSIVE FeedLoopNoBreak(_, _, _, _, _)
FeedLoopNoBreak(code, threads, i, c, next) ==
    IF i > Len(threads) THEN FOk(next, FALSE)
    ELSE IF threads[i] < 0 \/ threads[i] >= Len(code) THEN Err("index out of bounds")
    ELSE CASE code[threads[i] + 1].op = "Range" ->
                IF code[threads[i] + 1].lo <= c /\ c <= code[threads[i] + 1].hi
                THEN Bind(follow(threads[i] + 1, code, next, {}), LAMBDA f :
                        Bind(FeedLoopNoBreak(code, threads, i + 1, c, f.tl),
                             LAMBDA g : FOk(g.tl, f.hit \/ g.hit)))
                ELSE FeedLoopNoBreak(code, threads, i + 1, c, next)
           [] code[threads[i] + 1].op = "Match" ->
                FeedLoopNoBreak(code, threads, i + 1, c, next)
           [] OTHER -> Err("unreachable")

\* The loop of VM::feed over self.threads, from the i-th thread on:
\* the result's tl is self.next and its hit is self.matched.
RECURSIVE FeedLoop(_, _, _, _, _)
FeedLoop(code, threads, i, c, next) ==
    IF i > Len(threads) THEN FOk(next, FALSE)
    ELSE IF threads[i] < 0 \/ threads[i] >= Len(code) THEN Err("index out of bounds")
    ELSE CASE code[threads[i] + 1].op = "Range" ->
                IF code[threads[i] + 1].lo <= c /\ c <= code[threads[i] + 1].hi
                THEN Bind(follow(threads[i] + 1, code, next, {}), LAMBDA f :
                        IF f.hit THEN FOk(f.tl, TRUE)
                        ELSE FeedLoop(code, threads, i + 1, c, f.tl))
                ELSE FeedLoop(code, threads, i + 1, c, next)
           [] code[threads[i] + 1].op = "Match" ->
                FeedLoop(code, threads, i + 1, c, next)
           [] OTHER -> Err("unreachable")

\* VM::feed: the loop, then the swap of the buffers and next.clear().
VM_feed(code, vm, c) ==
    Bind(FeedLoop(code, vm.threads.threads, 1, c, vm.next),
         LAMBDA f : VOk(f.tl, ThreadList_new, f.hit))

\* VM::is_match_slow
is_match_slow(code, vm) ==
    \E i \in 1..Len(vm.threads.threads) : code[vm.threads.threads[i] + 1].op = "Match"

\* VM::is_match: v is the answer.
is_match(code, vm) ==
    IF is_match_slow(code, vm) # vm.matched
    THEN Err("the matching flag tells the truth")
    ELSE [err |-> "", v |-> vm.matched]

(***************************************************************************)
(* The facade (src/src/lib.rs, src/src/rose/lib.rs)                        *)
(***************************************************************************)

\* The loop of Regex::matches as it would be without its early return:
\* the answer is what is_match says after the last character.
RECURSIVE MatchesLoopToTheEnd(_, _, _)
MatchesLoopToTheEnd(code, vm, s) ==
    IF s = <<>> THEN [err |-> "", v |-> FALSE]
    ELSE Bind(VM_feed(code, vm, Head(s)), LAMBDA vm_ :
            Bind(is_match(code, vm_), LAMBDA m :
                IF Tail(s) = <<>> THEN m
                ELSE MatchesLoopToTheEnd(code, vm_, Tail(s))))

\* The loop of Regex::matches over s.chars().
RECURSIVE MatchesLoop(_, _, _)
MatchesLoop(code, vm, s) ==
    IF s = <<>> THEN [err |-> "", v |-> FALSE]
    ELSE Bind(VM_feed(code, vm, Head(s)), LAMBDA vm_ :
            Bind(is_match(code, vm_), LAMBDA m :
                IF m.v THEN [err |-> "", v |-> TRUE]
                ELSE MatchesLoop(code, vm_, Tail(s))))

\* Regex::matches
Regex_matches(code, s) ==
    Bind(VM_new(code), LAMBDA vm : MatchesLoop(code, vm, s))

\* compile of src/src/rose/lib.rs: parse, then the byte-code compiler.
lib_compile(regex) == Bind(parse(regex), LAMBDA p : compile_code(p.v))

\* compile of src/src/lib.rs: parse, then the graph compiler.
lib_compile_graph(regex) == Bind(parse(regex), LAMBDA p : compile_graph(p.v))

(***************************************************************************)
(* The state machine                                                       *)
(* A run compiles one pattern, with the byte-code compiler or with the     *)
(* graph compiler.  On the byte code it then either builds a VM and drives *)
(* it by hand (VM::new, feed, is_match), or calls Regex::matches.  A       *)
(* failure (fail!, a failed assertion, a bounds check, a recursion without *)
(* end) ends the run in the phase "failed".                                *)
(***************************************************************************)

\* Longest pattern, in lexemes, of the systematic part of Patterns.
MaxLexemes == 3
\* Longest input fed to a VM or given to Regex::matches.
MaxInput == 3

\* The lexemes the systematic patterns are made of.
Lexemes ==
    { Str(<<"a">>), Str(<<"b">>), Str(<<"|">>), Str(<<"*">>), Str(<<"?">>),
      Str(<<"+">>), Str(<<"(", "?", ":">>), Str(<<"(">>), Str(<<")">>) }

\* The patterns of section 8 of the specification and of main.rs, and
\* patterns with braces, classes and escapes.
Corpus ==
    { Str(<<"(", "a", "|", "b", ")", "c">>),
      Str(<<"a", "{", "2", ",", "3", "}">>),
      Str(<<"(", "?", ":", "a", "b", ")", "*", "c">>),
      Str(<<"[", "^", "a", "-", "z", "]", "+">>),
      Str(<<"\\", "d", "{", "3", "}">>),
      Str(<<"a", ".", "b">>),
      Str(<<"(", "?", ":", "|", "a", ")", "*">>),
      Str(<<"(", "?", ":", "a", "*", "b", "*", ")", "+">>),
      Str(<<"(", "?", ":", "a", "|", "a", "b", ")", "c", "?">>),
      Str(<<"a", "|", "a", "b">>),
      Str(<<"a", "{", "1", ",", "}", "?", "b">>),
      Str(<<"a", "{", ",", "2", "}", "?">>),
      Str(<<"[", "a", "b", "]", "c">>),
      Str(<<"[", "^", "\\", "D", "\\", "d", "]">>),
      Str(<<"[", "a", "]", "*">>),
      Str(<<"a", "*", "?", "?">>),
      Str(<<"a", "{", "2", "}", "?">>),
      Str(<<"a", "{", "2", "}", "?", "?">>),
      Str(<<"a", "*", "{", "2", "}">>),
      Str(<<"a", "{", "2", "}", "{", "3", "}">>),
      Str(<<"a", "{", "1", ",", "}", "*">>),
      Str(<<"a", "*", "?", "{", ",", "2", "}">>),
      Str(<<"(", "?", ":", "a", "b", ")", "?", "?">>),
      Str(<<"(", "?", ":", "a", "*", ")", "?">>),
      Str(<<"(", "a", "+", ")", "?">>),
      Str(<<"a", "{", "2", ",", "}">>),
      Str(<<"a", "b", "{", ",", "2", "}", "?", "c">>),
      Str(<<"a", "*", "a", "*", "b">>),
      Str(<<"a", "?", "|", "b", "?">>),
      Str(<<"a", "|", "b", "|", "c">>),
      Str(<<"[", "a", "]">>) }

Patterns ==
    { Flatten(ls) : ls \in UNION { [1..n -> Lexemes] : n \in 0..MaxLexemes } }
    \cup Corpus

\* The characters of the inputs.
InputChars == { Ord["a"], Ord["b"], Ord["c"] }

\* The inputs given to Regex::matches.
Inputs == UNION { [1..n -> InputChars] : n \in 0..MaxInput }

VARIABLES
    regex,      \* the pattern given to compile
    ast,        \* the Expr the parser returned
    phase,      \* "start", "code", "graph", "vm", "done" or "failed"
    failure,    \* the message of the failure that ended the run, or ""
    code,       \* the byte code (Regex.code)
    program,    \* the state graph (Regex.program)
    tails,      \* the dangling exits the graph compiler handed to reify
    threads,    \* VM.threads
    next,       \* VM.next
    matched,    \* VM.matched
    before,     \* the threads of VM.threads when the last feed began
    fed,        \* the characters fed so far, or the argument of matches
    result,     \* what the last is_match or matches returned (an Option)
    rs,         \* the list of ranges given to CharClass::new
    hist,       \* the classes made so far, each made from the one before
    stage,      \* "idle", "input", "new", "negated", "negated2" or "renewed":
                \* the operation that gave the last class, or failed
    probe,      \* the code point given to includes (an Option)
    answer      \* what includes returned

\* The variables of the engine and those of the character classes.
revars == <<regex, ast, phase, failure, code, program, tails, threads, next,
            matched, before, fed, result>>
ccvars == <<rs, hist, stage, probe, answer>>
vars == <<revars, ccvars>>

\* No character class is being made.
CCIdle ==
    /\ rs = <<>>
    /\ hist = <<>>
    /\ stage = "idle"
    /\ probe = None
    /\ answer = FALSE

Init ==
    /\ regex \in Patterns
    /\ ast = None
    /\ phase = "start"
    /\ failure = ""
    /\ code = <<>>
    /\ program = <<>>
    /\ tails = <<>>
    /\ threads = ThreadList_new
    /\ next = ThreadList_new
    /\ matched = FALSE
    /\ before = <<>>
    /\ fed = <<>>
    /\ result = None
    /\ CCIdle

\* The run ends with the failure r, or goes on to the phase ph.
Outcome(r, ph) ==
    /\ phase' = IF r.err # "" THEN "failed" ELSE ph
    /\ failure' = r.err

\* The state after compile of src/src/rose/lib.rs, p being what parse
\* returned and c what compile returned.
Compiled(p, c) ==
    /\ ast' = IF p.err = "" THEN Some(p.v) ELSE None
    /\ code' = IF c.err = "" THEN c.code ELSE <<>>
    /\ Outcome(c, "code")

Compile ==
    /\ phase = "start"
    /\ Compiled(parse(regex), lib_compile(regex))
    /\ UNCHANGED <<regex, program, tails, threads, next, matched, before, fed,
                   result, ccvars>>

\* The state after compile of src/src/lib.rs.
CompiledGraph(p, g) ==
    /\ ast' = IF p.err = "" THEN Some(p.v) ELSE None
    /\ program' = IF g.err = "" THEN g.states ELSE <<>>
    /\ tails' = IF g.err = "" THEN g.v ELSE <<>>
    /\ Outcome(g, "graph")

CompileGraph ==
    /\ phase = "start"
    /\ CompiledGraph(parse(regex), lib_compile_graph(regex))
    /\ UNCHANGED <<regex, code, threads, next, matched, before, fed, result,
                   ccvars>>

\* The fields of the VM vm, or the fields as they were when vm is a failure.
Running(vm) ==
    /\ threads' = IF vm.err = "" THEN vm.threads ELSE threads
    /\ next' = IF vm.err = "" THEN vm.next ELSE next
    /\ matched' = IF vm.err = "" THEN vm.matched ELSE matched
    /\ Outcome(vm, "vm")

\* VM::new on the compiled code.
VMNew ==
    /\ phase = "code"
    /\ Running(VM_new(code))
    /\ UNCHANGED <<regex, ast, code, program, tails, before, fed, result,
                   ccvars>>

\* VM::feed
Feed(c) ==
    /\ phase = "vm"
    /\ Len(fed) < MaxInput
    /\ Running(VM_feed(code, VOk(threads, next, matched), c))
    /\ before' = threads.threads
    /\ fed' = Append(fed, c)
    /\ result' = None
    /\ UNCHANGED <<regex, ast, code, program, tails, ccvars>>

\* The state after a call that returned the answer m.
Answered(m, ph) ==
    /\ result' = IF m.err = "" THEN Some(m.v) ELSE None
    /\ Outcome(m, ph)

\* VM::is_match
IsMatch ==
    /\ phase = "vm"
    /\ result = None
    /\ Answered(is_match(code, VOk(threads, next, matched)), "vm")
    /\ UNCHANGED <<regex, ast, code, program, tails, threads, next, matched,
                   before, fed, ccvars>>

\* Regex::matches on the input s.
Matches(s) ==
    /\ phase = "code"
    /\ Answered(Regex_matches(code, s), "done")
    /\ fed' = s
    /\ UNCHANGED <<regex, ast, code, program, tails, threads, next, matched,
                   before, ccvars>>

Next ==
    \/ Compile
    \/ CompileGraph
    \/ VMNew
    \/ \E c \in InputChars : Feed(c)
    \/ IsMatch
    \/ \E s \in Inputs : Matches(s)

Spec == Init /\ [][Next]_vars

(***************************************************************************)
(* The character classes on their own                                      *)
(* A run makes a class from a list of ranges with CharClass::new, then     *)
(* negates it (once or twice) or normalizes it again, and asks includes    *)
(* about one code point.                                                   *)
(***************************************************************************)

\* Longest list of ranges given to CharClass::new.
MaxRanges == 2

\* The code points the ranges are made of: the two ends of the code space,
\* two neighbours, a point apart from them, and the two sides of the
\* surrogate gap.
CCPoints == { 0, 1, 3, SURROGATE_LO - 1, SURROGATE_HI + 1, CHAR_MAX }

\* The code points includes is asked about: those points and their
\* neighbours, when they are chars.
CCProbes ==
    { c \in UNION { {q - 1, q, q + 1} : q \in CCPoints } : char_from_u32(c) # None }

\* The lists of ranges, those with lo > hi and the empty list among them.
RangeLists == UNION { [1..n -> CCPoints \X CCPoints] : n \in 0..MaxRanges }

\* No pattern is being compiled.
REIdle ==
    /\ regex = <<>>
    /\ ast = None
    /\ phase = "idle"
    /\ failure = ""
    /\ code = <<>>
    /\ program = <<>>
    /\ tails = <<>>
    /\ threads = ThreadList_new
    /\ next = ThreadList_new
    /\ matched = FALSE
    /\ before = <<>>
    /\ fed = <<>>
    /\ result = None

InitCC ==
    /\ rs \in RangeLists
    /\ hist = <<>>
    /\ stage = "input"
    /\ probe = None
    /\ answer = FALSE
    /\ REIdle

\* The operation that gives the stage st made the class cc, or failed.
Made(cc, st) ==
    /\ hist' = Append(hist, cc)
    /\ stage' = st
    /\ UNCHANGED <<rs, probe, answer, revars>>

\* The last operation returned a class.
HasClass == hist # <<>> /\ Last(hist).err = ""

\* CharClass::new on the list of ranges.
New ==
    /\ stage = "input"
    /\ Made(CharClass_new(rs), "new")

\* CharClass::negate on the last class.
Negate ==
    /\ stage \in {"new", "negated"}
    /\ HasClass
    /\ probe = None
    /\ Made(negate(Last(hist).ranges), IF stage = "new" THEN "negated" ELSE "negated2")

\* CharClass::new on the ranges of the class that CharClass::new made.
Renew ==
    /\ stage = "new"
    /\ HasClass
    /\ probe = None
    /\ Made(CharClass_new(Last(hist).ranges), "renewed")

\* CharClass::includes on the last class.
Includes(c) ==
    /\ HasClass
    /\ probe = None
    /\ probe' = Some(c)
    /\ answer' = includes(Last(hist).ranges, c)
    /\ UNCHANGED <<rs, hist, stage, revars>>

NextCC ==
    \/ New
    \/ Negate
    \/ Renew
    \/ \E c \in CCProbes : Includes(c)

SpecCC == InitCC /\ [][NextCC]_vars

(***************************************************************************)
(* The earlier character class of src/charclass.rs                         *)
(***************************************************************************)

MaxOldRanges == 3

\* The code points its ranges are made of: three neighbours, a point apart
\* from them, the last char before the surrogate gap and the last char.
OldPoints == { 0, 1, 2, 4, SURROGATE_LO - 1, CHAR_MAX }

\* Range::new of src/charclass.rs: lo <= hi, or the task fails.
Range_new(l, h) == IF l <= h THEN [err |-> "", v |-> <<l, h>>] ELSE Err("invalid range")

\* The values of the type Range: the pairs Range::new returns.
OldRanges == { Range_new(p[1], p[2]).v : p \in { q \in OldPoints \X OldPoints : q[1] <= q[2] } }

OldRangeLists == UNION { [1..n -> OldRanges] : n \in 0..MaxOldRanges }

\* The coalescing loop of the earlier CharClass::new, with 1-based cursor
\* and i: a range that starts a new run moves the cursor to i and stays
\* where it is.
RECURSIVE CoalesceInPlace(_, _, _)
CoalesceInPlace(r, cursor, i) ==
    IF i > Len(r) THEN [err |-> "", ranges |-> SubSeq(r, 1, cursor)]
    ELSE IF hi(r[cursor]) = CHAR_MAX
    THEN [err |-> "", ranges |-> SubSeq(r, 1, cursor)]
    ELSE LET nxt == next_char(hi(r[cursor])) IN
         IF nxt = None
         THEN Err("called Option::unwrap() on a None value")
         ELSE IF lo(r[i]) <= nxt[1]
         THEN Bind(Range_new(min(lo(r[cursor]), lo(r[i])),
                             max(hi(r[cursor]), hi(r[i]))),
                   LAMBDA m : CoalesceInPlace([r EXCEPT ![cursor] = m.v], cursor, i + 1))
         ELSE CoalesceInPlace(r, i, i + 1)

\* The earlier CharClass::new: sort, coalesce, truncate to cursor + 1.
CharClass_new_inplace(r) ==
    IF Len(r) > 0 THEN CoalesceInPlace(sort_by(r), 1, 2)
    ELSE Err("char class cannot be empty")

InitOld ==
    /\ rs \in OldRangeLists
    /\ hist = <<>>
    /\ stage = "input"
    /\ probe = None
    /\ answer = FALSE
    /\ REIdle

\* The earlier CharClass::new on the list of ranges.
OldNew ==
    /\ stage = "input"
    /\ Made(CharClass_new_inplace(rs), "new")

NextOld == OldNew

SpecOld == InitOld /\ [][NextOld]_vars

(***************************************************************************)
(* The parser on its own                                                   *)
(* A run parses one pattern: braces and counts, groups with extensions,    *)
(* and bracket classes.                                                    *)
(***************************************************************************)

\* Longest patterns of braces, of groups and of bracket classes.
MaxBraceLen == 6
MaxGroupLen == 5
MaxClassLen == 5

\* The strings of at most n characters of the alphabet.
Strings(alphabet, n) == UNION { [1..k -> alphabet] : k \in 0..n }

BraceChars == { Ord["a"], Ord["{"], Ord["}"], Ord[","], Ord["2"] }
GroupChars ==
    { Ord["("], Ord[")"], Ord["?"], Ord["="], Ord["!"], Ord["#"], Ord["|"], Ord["a"] }
ClassChars == { Ord["["], Ord["]"], Ord["-"], Ord["^"], Ord["a"], Ord["z"] }

\* The counts written in braces: none, small ones, the ones around
\* REPEAT_MAX, one beyond the 32-bit range, and ones with leading zeros.
Counts ==
    { <<>>, Str(<<"0">>), Str(<<"2">>), Str(<<"3">>),
      Str(<<"9", "9", "9", "9", "9">>),
      Str(<<"1", "0", "0", "0", "0", "0">>),
      Str(<<"1", "0", "0", "0", "0", "1">>),
      Str(<<"9", "9", "9", "9", "9", "9", "9", "9", "9", "9">>),
      Str(<<"0", "0", "0", "0", "0", "0", "0", "0", "0", "0", "2">>) }

\* a{M,N}, a{N} and a{N}? for the counts above.
CountPatterns ==
    { Str(<<"a", "{">>) \o m \o Str(<<",">>) \o n \o Str(<<"}">>) : m \in Counts, n \in Counts }
    \cup { Str(<<"a", "{">>) \o n \o Str(<<"}">>) : n \in Counts }

ParseInputs ==
    Strings(BraceChars, MaxBraceLen) \cup Strings(GroupChars, MaxGroupLen)
    \cup Strings(ClassChars, MaxClassLen) \cup CountPatterns

InitParse ==
    /\ regex \in ParseInputs
    /\ ast = None
    /\ phase = "start"
    /\ failure = ""
    /\ code = <<>>
    /\ program = <<>>
    /\ tails = <<>>
    /\ threads = ThreadList_new
    /\ next = ThreadList_new
    /\ matched = FALSE
    /\ before = <<>>
    /\ fed = <<>>
    /\ result = None
    /\ CCIdle

\* The state after parse, p being what it returned.
Parsed(p) ==
    /\ ast' = IF p.err = "" THEN Some(p.v) ELSE None
    /\ phase' = IF p.err = "" THEN "parsed" ELSE "failed"
    /\ failure' = p.err

\* parse
Parse ==
    /\ phase = "start"
    /\ Parsed(parse(regex))
    /\ UNCHANGED <<regex, code, program, tails, threads, next, matched, before,
                   fed, result, ccvars>>

NextParse == Parse

SpecParse == InitParse /\ [][NextParse]_vars

(***************************************************************************)
(* What a program accepts, read off the instructions alone                 *)
(* (sets of program counters; no thread list, no order, no recursion on    *)
(* the program's own jumps).                                               *)
(***************************************************************************)

\* The instruction at pc is a Range or a Match.
IsLeaf(c, pc) == pc >= 0 /\ pc < Len(c) /\ c[pc + 1].op \in {"Range", "Match"}

\* The program counters one non-consuming step away from pc.
EpsSucc(c, pc) ==
    IF pc < 0 \/ pc >= Len(c) THEN {}
    ELSE CASE c[pc + 1].op = "Empty" -> {pc + 1}
           [] c[pc + 1].op = "Jump" -> {c[pc + 1].to}
           [] c[pc + 1].op \in {"Fork", "GFork"} -> {pc + 1, c[pc + 1].to}
           [] OTHER -> {}

\* The program counters any number of non-consuming steps away from S.
RECURSIVE EpsClosure(_, _)
EpsClosure(c, S) ==
    IF UNION { EpsSucc(c, pc) : pc \in S } \subseteq S THEN S
    ELSE EpsClosure(c, S \cup UNION { EpsSucc(c, pc) : pc \in S })

\* The Range and Match instructions reached from S without consuming.
Leaves(c, S) == { pc \in EpsClosure(c, S) : IsLeaf(c, pc) }

\* The instruction at pc consumes the character ch.
Consumes(c, pc, ch) ==
    IsLeaf(c, pc) /\ c[pc + 1].op = "Range"
    /\ c[pc + 1].lo <= ch /\ ch <= c[pc + 1].hi

\* The configuration after the string s, from the configuration S.
RECURSIVE RunFrom(_, _, _)
RunFrom(c, S, s) ==
    IF s = <<>> THEN S
    ELSE RunFrom(c, Leaves(c, { pc + 1 : pc \in { q \in S : Consumes(c, q, Head(s)) } }),
                 Tail(s))

\* The program c is in an accepting configuration once s has been consumed.
Accepts(c, s) == \E pc \in RunFrom(c, Leaves(c, {0}), s) : c[pc + 1].op = "Match"

\* The program counters one step, consuming or not, away from pc.
AnySucc(c, pc) ==
    EpsSucc(c, pc) \cup (IF IsLeaf(c, pc) /\ c[pc + 1].op = "Range" THEN {pc + 1} ELSE {})

\* The program counters the program can come to from S.
RECURSIVE ReachableFrom(_, _)
ReachableFrom(c, S) ==
    IF UNION { AnySucc(c, pc) : pc \in S } \subseteq S THEN S
    ELSE ReachableFrom(c, S \cup UNION { AnySucc(c, pc) : pc \in S })

\* Some cycle of non-consuming instructions can be reached from the start.
HasEpsCycle(c) ==
    \E pc \in ReachableFrom(c, {0}) : pc \in EpsClosure(c, EpsSucc(c, pc))

\* The same on a state graph g: the states one non-consuming step away from
\* the state i, the states one step away, and the closures.
GEpsSucc(g, i) ==
    IF g[i + 1].want.tag = "Nothing"
    THEN { g[i + 1].exits[k] : k \in 1..Len(g[i + 1].exits) } \cap (0..(Len(g) - 1))
    ELSE {}
GAnySucc(g, i) ==
    { g[i + 1].exits[k] : k \in 1..Len(g[i + 1].exits) } \cap (0..(Len(g) - 1))

RECURSIVE GEpsClosure(_, _)
GEpsClosure(g, S) ==
    IF UNION { GEpsSucc(g, i) : i \in S } \subseteq S THEN S
    ELSE GEpsClosure(g, S \cup UNION { GEpsSucc(g, i) : i \in S })

RECURSIVE GReachableFrom(_, _)
GReachableFrom(g, S) ==
    IF UNION { GAnySucc(g, i) : i \in S } \subseteq S THEN S
    ELSE GReachableFrom(g, S \cup UNION { GAnySucc(g, i) : i \in S })

GHasEpsCycle(g) ==
    \E i \in GReachableFrom(g, {0}) : i \in GEpsClosure(g, GEpsSucc(g, i))

\* The expression e holds a Capture.
RECURSIVE HasCapture(_)
HasCapture(e) ==
    CASE e.tag = "Capture" -> TRUE
      [] e.tag = "Repeat" -> HasCapture(e.inner)
      [] e.tag \in {"Concatenate", "Alternate"} ->
            \E k \in 1..Len(e.inners) : HasCapture(e.inners[k])
      [] OTHER -> FALSE

\* The expression e with the inner of every Capture in its place.
RECURSIVE Transparent(_)
Transparent(e) ==
    CASE e.tag = "Capture" -> Transparent(e.inner)
      [] e.tag = "Repeat" -> Repeat(Transparent(e.inner), e.min, e.max, e.greedy)
      [] e.tag = "Concatenate" ->
            Concatenate([k \in 1..Len(e.inners) |-> Transparent(e.inners[k])])
      [] e.tag = "Alternate" ->
            Alternate([k \in 1..Len(e.inners) |-> Transparent(e.inners[k])])
      [] OTHER -> e

(***************************************************************************)
(* Properties                                                              *)
(***************************************************************************)

\* The VM as the variables hold it.
TheVM == VOk(threads, next, matched)

\* C1: Regex::matches(s) returns true if and only if some prefix of s, the
\* empty prefix included, leaves the program in an accepting configuration.
C1_MatchesIffSomePrefixAccepts ==
    phase = "done" =>
        (result = Some(TRUE)
            <=> \E n \in 0..Len(fed) : Accepts(code, SubSeq(fed, 1, n)))

\* C2: at any point of a VM's life, directly after VM::new too, the matched
\* flag equals whether some thread of the current list is on a Match, so
\* the assertion of is_match does not fail.
C2_FlagTellsTheTruth ==
    /\ phase = "vm" => (matched <=> is_match_slow(code, TheVM))
    /\ failure # "the matching flag tells the truth"

\* Longest suffix put after a matched input.
MaxSuffix == 2
Suffixes == UNION { [1..n -> InputChars] : n \in 0..MaxSuffix }

\* C3: match is monotone in the input: if matches(s) is true then
\* matches(s ++ t) is true for every suffix t.
C3_MatchIsMonotone ==
    (phase = "done" /\ result = Some(TRUE)) =>
        \A t \in Suffixes : Regex_matches(code, fed \o t) = [err |-> "", v |-> TRUE]

\* C3: Regex::matches returned true on an input of one character or more.
C3_Witness == phase = "done" /\ result = Some(TRUE) /\ Len(fed) >= 1

\* The threads that stepping the i-th thread of the list the last feed
\* began with spawns on the character fed last.
Spawn(i) ==
    IF Consumes(code, before[i], fed[Len(fed)])
    THEN Leaves(code, {before[i] + 1}) ELSE {}

\* Stepping the i-th thread reaches accept.
Hits(i) == \E pc \in Spawn(i) : code[pc + 1].op = "Match"

\* The threads stepped: those no accepting thread comes before.
Stepped == { i \in 1..Len(before) : \A j \in 1..(i - 1) : ~Hits(j) }

\* The first of the stepped threads that spawns pc.
FirstSpawner(pc) ==
    CHOOSE i \in Stepped :
        pc \in Spawn(i) /\ \A j \in Stepped : pc \in Spawn(j) => i <= j

\* C4: feed steps the threads in list order, sets the flag as soon as
\* stepping one reaches accept and steps none after it: the next list holds
\* the threads spawned by the accepting thread and by those before it, and
\* no others, in the order of the threads that spawned them.
C4_FeedStopsAtTheFirstAccept ==
    (phase = "vm" /\ fed # <<>>) =>
        /\ matched <=> \E i \in Stepped : Hits(i)
        /\ { threads.threads[k] : k \in 1..Len(threads.threads) }
              = UNION { Spawn(i) : i \in Stepped }
        /\ \A j, k \in 1..Len(threads.threads) :
              j < k => FirstSpawner(threads.threads[j])
                          <= FirstSpawner(threads.threads[k])

\* C4: a feed reached accept while a thread later in the list was still to
\* be stepped and would have spawned a thread the next list does not hold.
C4_Witness ==
    /\ phase = "vm" /\ fed # <<>> /\ matched
    /\ \E i \in (1..Len(before)) \ Stepped :
          \E pc \in Spawn(i) : pc \notin threads.indices

\* C5: no cycle made only of non-consuming steps can be reached from the
\* start of a compiled program, in the byte-code form or in the graph form.
C5_NoEpsilonCycle ==
    /\ phase = "code" => ~HasEpsCycle(code)
    /\ phase = "graph" => ~GHasEpsCycle(program)

\* C6: VM::new and every feed end and raise no failure: the recursion of
\* follow ends, no program counter lies outside the program and the
\* unreachable!() arm of feed is not taken.
C6_VMNeverFails ==
    failure \notin {"stack overflow", "index out of bounds", "unreachable"}

\* C7: when the graph compiler returns, every out-edge of every state is the
\* index of a state or the state count; no placeholder is left.
C7_EdgesAreValid ==
    phase = "graph" =>
        \A i \in 1..Len(program) : \A k \in 1..Len(program[i].exits) :
            0 <= program[i].exits[k] /\ program[i].exits[k] <= Len(program)

\* C8: the assertion of connect never fails, and when reify returns every
\* edge handed out by reserve has been patched.
C8_EveryEdgePatchedOnce ==
    /\ failure # "edge has not yet been connected"
    /\ phase = "graph" =>
          \A i \in 1..Len(program) : \A k \in 1..Len(program[i].exits) :
              program[i].exits[k] # UINT_MAX

\* C9: lowering Alt([e1, ..., en]), n >= 1, completes without failure and
\* makes one epsilon state f with one out-edge for each branch, in order.
\* For a pattern that is an alternation, f is the state 1, next to the
\* initial pseudo-state.
C9_AlternateLowers ==
    (ast # None /\ ast[1].tag = "Alternate" /\ Len(ast[1].inners) >= 1) =>
        /\ failure # "edge has not yet been connected"
        /\ phase = "graph" =>
              /\ program[2].want = Nothing
              /\ Len(program[2].exits) = Len(ast[1].inners)

\* C10: Capture is transparent: compiling an expression that holds a
\* Capture succeeds and gives the program of the same expression with the
\* inner of every Capture in its place.
C10_CaptureIsTransparent ==
    (ast # None /\ HasCapture(ast[1])) =>
        /\ failure # "captures not implemented yet"
        /\ phase = "code" => code = compile_code(Transparent(ast[1])).code

\* The language of an expression, defined on the expression alone:
\* InLang(e, s) says that the string s is a match of e.
RECURSIVE InLang(_, _)
RECURSIVE InConcatenate(_, _, _)
RECURSIVE InPieces(_, _, _)

\* s is n non-empty matches of e, one after the other.
InPieces(e, s, n) ==
    IF n = 0 THEN s = <<>>
    ELSE \E j \in 1..Len(s) :
            /\ InLang(e, SubSeq(s, 1, j))
            /\ InPieces(e, SubSeq(s, j + 1, Len(s)), n - 1)

\* s is k consecutive matches of e for some k with mn <= k and, when mx is
\* Some(m), k <= m: n of them non-empty, and empty ones to make up k.
InRepeat(e, s, mn, mx) ==
    \E n \in 0..Len(s) :
        /\ InPieces(e, s, n)
        /\ mx # None => n <= mx[1]
        /\ n >= mn \/ InLang(e, <<>>)

\* s is a match of inners[k], then of inners[k + 1], and so on.
InConcatenate(inners, k, s) ==
    IF k > Len(inners) THEN s = <<>>
    ELSE \E j \in 0..Len(s) :
            /\ InLang(inners[k], SubSeq(s, 1, j))
            /\ InConcatenate(inners, k + 1, SubSeq(s, j + 1, Len(s)))

InLang(e, s) ==
    CASE e.tag = "Empty" -> s = <<>>
      [] e.tag = "Range" -> Len(s) = 1 /\ e.lo <= s[1] /\ s[1] <= e.hi
      [] e.tag = "Concatenate" -> InConcatenate(e.inners, 1, s)
      [] e.tag = "Alternate" -> \E k \in 1..Len(e.inners) : InLang(e.inners[k], s)
      [] e.tag = "Repeat" -> InRepeat(e.inner, s, e.min, e.max)
      [] e.tag = "Capture" -> InLang(e.inner, s)

\* The expression e holds a Repeat.
RECURSIVE HasRepeat(_)
HasRepeat(e) ==
    CASE e.tag = "Repeat" -> TRUE
      [] e.tag = "Capture" -> HasRepeat(e.inner)
      [] e.tag \in {"Concatenate", "Alternate"} ->
            \E k \in 1..Len(e.inners) : HasRepeat(e.inners[k])
      [] OTHER -> FALSE

\* What a state graph accepts, read off the states alone: the accepting
\* sink is the state count, a Nothing state passes on to its exits, a
\* Range state to its exits once it has consumed a character.
GExits(g, i) ==
    IF i < 0 \/ i >= Len(g) THEN {}
    ELSE { g[i + 1].exits[k] : k \in 1..Len(g[i + 1].exits) }

GEps(g, i) ==
    IF i < 0 \/ i >= Len(g) THEN {}
    ELSE IF g[i + 1].want.tag = "Nothing" THEN GExits(g, i) ELSE {}

RECURSIVE GClosure(_, _)
GClosure(g, S) ==
    IF UNION { GEps(g, i) : i \in S } \subseteq S THEN S
    ELSE GClosure(g, S \cup UNION { GEps(g, i) : i \in S })

GConsumes(g, i, ch) ==
    /\ 0 <= i /\ i < Len(g)
    /\ g[i + 1].want.tag = "Range"
    /\ g[i + 1].want.lo <= ch /\ ch <= g[i + 1].want.hi

RECURSIVE GRunFrom(_, _, _)
GRunFrom(g, S, s) ==
    IF s = <<>> THEN S
    ELSE GRunFrom(g, GClosure(g, UNION { GExits(g, i) : i \in { q \in S : GConsumes(g, q, Head(s)) } }),
                  Tail(s))

GAccepts(g, s) == Len(g) \in GRunFrom(g, GClosure(g, {0}), s)

\* C11: for Repeat(e, min, max, g) the compiled program accepts exactly the
\* strings made of k consecutive matches of e with min <= k <= max (k >= min
\* when max is None), whatever g is: the byte code and the state graph of
\* an expression that holds a Repeat accept exactly its language.
C11_RepeatCounts ==
    (ast # None /\ HasRepeat(ast[1])) =>
        /\ phase = "code" =>
              \A s \in Inputs : Accepts(code, s) <=> InLang(ast[1], s)
        /\ phase = "graph" =>
              \A s \in Inputs : GAccepts(program, s) <=> InLang(ast[1], s)

\* C11: the byte code of a{2,3} accepts "aa" and "aaa" and rejects "a".
C11_Witness ==
    /\ phase = "code" /\ ast # None
    /\ ast[1] = Repeat(Range(Ord["a"], Ord["a"]), 2, Some(3), "Greedy")
    /\ Accepts(code, Str(<<"a", "a">>)) /\ Accepts(code, Str(<<"a", "a", "a">>))
    /\ ~Accepts(code, Str(<<"a">>))

\* The expression e emits no split: ranges, one after the other.
RECURSIVE SplitFree(_)
SplitFree(e) ==
    CASE e.tag = "Range" -> TRUE
      [] e.tag = "Concatenate" -> \A k \in 1..Len(e.inners) : SplitFree(e.inners[k])
      [] e.tag = "Alternate" -> Len(e.inners) = 1 /\ SplitFree(e.inners[1])
      [] OTHER -> FALSE

\* Every split of e is the split of a Repeat of setting g whose copies of
\* the inner expression emit no split.
RECURSIVE Flat(_, _)
Flat(e, g) ==
    CASE e.tag = "Repeat" -> e.greedy = g /\ SplitFree(e.inner)
      [] e.tag = "Concatenate" -> \A k \in 1..Len(e.inners) : Flat(e.inners[k], g)
      [] OTHER -> SplitFree(e)

\* The splits of a byte code.  An optional split jumps forward to the end
\* of the repeat and enters a copy at the next instruction; a loop split
\* jumps back into the last copy and leaves at the next instruction.
Forks(c) == { pc \in 0..(Len(c) - 1) : c[pc + 1].op \in {"Fork", "GFork"} }
EnterOf(c, pc) == IF c[pc + 1].to > pc THEN pc + 1 ELSE c[pc + 1].to
ExitOf(c, pc) == IF c[pc + 1].to > pc THEN c[pc + 1].to ELSE pc + 1

\* The thread of highest priority that follow adds when called on pc.
FirstThread(c, pc) ==
    IF follow(pc, c, ThreadList_new, {}).err # "" THEN None
    ELSE Some(Head(follow(pc, c, ThreadList_new, {}).tl.threads))

\* The splits of a state graph: the Nothing states with two exits.  A loop
\* split has an edge back to a state before it; an optional split enters
\* the copy pushed right after it.
GForks(g) ==
    { f \in 1..(Len(g) - 1) : g[f + 1].want = Nothing /\ Len(g[f + 1].exits) = 2 }
GEnterOf(g, f) ==
    IF \E k \in 1..2 : g[f + 1].exits[k] <= f
    THEN CHOOSE x \in { g[f + 1].exits[k] : k \in 1..2 } : x <= f
    ELSE f + 1

\* The edge of a split that has priority is the one into a copy of e.
PrefersEnter(c, pc) ==
    /\ FirstThread(c, pc) # None
    /\ FirstThread(c, pc) = FirstThread(c, EnterOf(c, pc))
    /\ FirstThread(c, pc) # FirstThread(c, ExitOf(c, pc))
PrefersExit(c, pc) ==
    /\ FirstThread(c, pc) # None
    /\ FirstThread(c, pc) = FirstThread(c, ExitOf(c, pc))
    /\ FirstThread(c, pc) # FirstThread(c, EnterOf(c, pc))
GPrefersEnter(g, f) ==
    g[f + 1].exits[1] = GEnterOf(g, f) /\ g[f + 1].exits[2] # GEnterOf(g, f)
GPrefersExit(g, f) ==
    g[f + 1].exits[2] = GEnterOf(g, f) /\ g[f + 1].exits[1] # GEnterOf(g, f)

\* C12: in every split emitted for a Repeat, the edge that enters or loops
\* back into a copy of e has priority over the exit edge when the Repeat is
\* Greedy, and the exit edge has priority when it is NonGreedy: for the
\* optional splits and the loop splits, in the byte code (priority as
\* follow gives it) and in the state graph (priority as the order of exits).
C12_GreedyPriority ==
    (ast # None /\ HasRepeat(ast[1])) =>
        /\ (phase = "code" /\ Flat(ast[1], "Greedy")) =>
              \A pc \in Forks(code) : PrefersEnter(code, pc)
        /\ (phase = "code" /\ Flat(ast[1], "NonGreedy")) =>
              \A pc \in Forks(code) : PrefersExit(code, pc)
        /\ (phase = "graph" /\ Flat(ast[1], "Greedy")) =>
              \A f \in GForks(program) : GPrefersEnter(program, f)
        /\ (phase = "graph" /\ Flat(ast[1], "NonGreedy")) =>
              \A f \in GForks(program) : GPrefersExit(program, f)

\* C12: the byte code of a NonGreedy repeat with an optional split and a
\* loop split, as a*? has.
C12_Witness ==
    /\ phase = "code" /\ ast # None
    /\ HasRepeat(ast[1]) /\ Flat(ast[1], "NonGreedy")
    /\ \E pc \in Forks(code) : code[pc + 1].to > pc
    /\ \E pc \in Forks(code) : code[pc + 1].to <= pc

\* The range list is non-empty and each of its ranges has lo <= hi.
Valid(ranges) ==
    ranges # <<>> /\ \A k \in 1..Len(ranges) : lo(ranges[k]) <= hi(ranges[k])

\* Some range of the list holds c (a linear scan).
Covers(ranges, c) ==
    \E k \in 1..Len(ranges) : lo(ranges[k]) <= c /\ c <= hi(ranges[k])

\* The ranges are sorted and no two of them overlap or touch.
Normalized(ranges) ==
    /\ \A k \in 1..Len(ranges) : lo(ranges[k]) <= hi(ranges[k])
    /\ \A k \in 1..(Len(ranges) - 1) : hi(ranges[k]) + 1 < lo(ranges[k + 1])

\* The class of all code points.
FullClass == << <<0, CHAR_MAX>> >>

\* C13: for every non-empty list of ranges with lo <= hi, CharClass::new
\* returns a list that is sorted, with ranges[i].hi + 1 < ranges[i+1].lo for
\* every adjacent pair, and that covers the code points of the input.
C13_NewNormalizes ==
    (stage # "input" /\ Valid(rs)) =>
        /\ hist[1].err = ""
        /\ Normalized(hist[1].ranges)
        /\ \A c \in CCProbes : Covers(hist[1].ranges, c) <=> Covers(rs, c)

\* C14: negate returns the complement within [U+0000, MAX]: the negation
\* includes c iff the class does not, and the negation is empty exactly
\* when the class is the single range (U+0000, MAX).
C14_NegateIsTheComplement ==
    (stage = "negated") =>
        /\ hist[2].err = ""
        /\ \A c \in CCProbes :
              includes(hist[2].ranges, c) <=> ~includes(hist[1].ranges, c)
        /\ hist[2].ranges = <<>> <=> hist[1].ranges = FullClass

\* C15: for a class that is not the full interval, negate applied twice
\* completes and gives back the class's range list.
C15_NegateTwice ==
    (stage \in {"negated", "negated2"} /\ hist[1].ranges # FullClass) =>
        /\ Last(hist).err = ""
        /\ stage = "negated2" => hist[3].ranges = hist[1].ranges

\* C16: includes(c), a binary search, is true iff some range (lo, hi) of
\* the class has lo <= c <= hi.
C16_IncludesIsTheLinearScan ==
    probe # None => (answer <=> Covers(Last(hist).ranges, probe[1]))

\* C16: includes found a code point in the third range of a class, where
\* the binary search has to take its upper half.
C16_Witness ==
    /\ probe # None /\ answer
    /\ Len(Last(hist).ranges) >= 3
    /\ probe[1] >= lo(Last(hist).ranges[3])

\* C17: normalization is idempotent: CharClass::new on the ranges of
\* CharClass::new(rs) returns the range list of CharClass::new(rs).
C17_NewIsIdempotent ==
    (stage # "input" /\ Valid(rs)) =>
        /\ hist[1].err = ""
        /\ stage = "renewed" => hist[2] = hist[1]

\* C18: CharClass::new fails exactly when its list is empty or holds a
\* range with lo > hi.
C18_NewFailsOnlyOnBadInput ==
    stage # "input" => (hist[1].err # "" <=> ~Valid(rs))

\* Some Alternate of the expression has no branch at all.
RECURSIVE HasEmptyAlternate(_)
HasEmptyAlternate(e) ==
    CASE e.tag = "Alternate" ->
            \/ e.inners = <<>>
            \/ \E k \in 1..Len(e.inners) : HasEmptyAlternate(e.inners[k])
      [] e.tag = "Concatenate" ->
            \E k \in 1..Len(e.inners) : HasEmptyAlternate(e.inners[k])
      [] e.tag \in {"Repeat", "Capture"} -> HasEmptyAlternate(e.inner)
      [] OTHER -> FALSE

\* C19: in every pattern the parser accepts, each negated character class
\* has a non-empty negation: every Alternate built from a character class
\* (the only Alternates with fewer than two branches) has a Range branch.
C19_NoEmptyClass ==
    ast # None => ~HasEmptyAlternate(ast[1])

\* The repeat operators: ?, *, + and counted repetitions.
RepeatOperators ==
    { Str(<<"?">>), Str(<<"*">>), Str(<<"+">>),
      Str(<<"{", "2", "}">>), Str(<<"{", "3", "}">>), Str(<<"{", "2", ",", "3", "}">>),
      Str(<<"{", "1", ",", "}">>), Str(<<"{", ",", "2", "}">>) }

\* The pattern r ends with the operator op, after something.
EndsWith(r, op) ==
    Len(r) > Len(op) /\ SubSeq(r, Len(r) - Len(op) + 1, Len(r)) = op

\* The pattern r without its last n characters.
DropLast(r, n) == SubSeq(r, 1, Len(r) - n)

\* The number of parentheses open after the first i characters of r.
Depth(r, i) ==
    Cardinality({ k \in 1..i : r[k] = Ord["("] })
        - Cardinality({ k \in 1..i : r[k] = Ord[")"] })

\* The pattern r is one group, from its first character to its last.
WholeGroup(r) ==
    /\ Len(r) >= 2 /\ r[1] = Ord["("] /\ r[Len(r)] = Ord[")"]
    /\ \A k \in 1..Len(r) : r[k] \notin { Ord["["], Ord["\\"], Ord["#"] }
    /\ \A i \in 1..(Len(r) - 1) : Depth(r, i) > 0
    /\ Depth(r, Len(r)) = 0

\* The pattern r is one atom (a letter or a group) followed by repeat
\* operators only, so that what it parses to is the one item the next
\* operator applies to.
RECURSIVE IsAtomChain(_)
IsAtomChain(r) ==
    \/ Len(r) = 1 /\ r[1] \in { Ord["a"], Ord["b"], Ord["c"] }
    \/ WholeGroup(r)
    \/ \E op \in RepeatOperators : EndsWith(r, op) /\ IsAtomChain(DropLast(r, Len(op)))

\* The parse of the pattern failed with "multiple repeat".
MultipleRepeat ==
    ast = None /\ phase = "failed" /\ failure = "multiple repeat"

\* What the claim says of the operator op applied to the expression e.
RepeatRule(e, op) ==
    IF op = Str(<<"?">>)
    THEN IF e.tag # "Repeat" THEN ast = Some(Repeat(e, 0, Some(1), "Greedy"))
         ELSE IF e.greedy = "Greedy"
         THEN ast = Some(Repeat(e.inner, e.min, e.max, "NonGreedy"))
         ELSE MultipleRepeat
    ELSE e.tag = "Repeat" => MultipleRepeat

\* The pattern of the state is an atom chain that parses to an expression,
\* followed by the operator op.
Applies(op) ==
    /\ phase # "start"
    /\ EndsWith(regex, op)
    /\ IsAtomChain(DropLast(regex, Len(op)))
    /\ parse(DropLast(regex, Len(op))).err = ""
    /\ parse(DropLast(regex, Len(op))).v # Empty

\* C20: ? after a non-Repeat atom gives Repeat(atom, 0, Some(1), Greedy);
\* ? after a Greedy Repeat gives the same Repeat with NonGreedy; ? after a
\* NonGreedy Repeat, and *, + or {...} after any Repeat, make the parse
\* fail with "multiple repeat".
C20_RepeatOperators ==
    \A op \in RepeatOperators :
        Applies(op) => RepeatRule(parse(DropLast(regex, Len(op))).v, op)

\* C20: a ? was applied to a Greedy counted Repeat, which became NonGreedy.
C20_Witness ==
    /\ Applies(Str(<<"?">>))
    /\ ast # None /\ ast[1].tag = "Repeat" /\ ast[1].greedy = "NonGreedy"
    /\ ast[1].min = 2 /\ ast[1].max = Some(2)

\* Every Repeat of e has counts of at most REPEAT_MAX, and min <= max
\* when max is set.
RECURSIVE RepeatsInRange(_)
RepeatsInRange(e) ==
    CASE e.tag = "Repeat" ->
            /\ 0 <= e.min /\ e.min <= REPEAT_MAX
            /\ e.max # None => (e.max[1] <= REPEAT_MAX /\ e.min <= e.max[1])
            /\ RepeatsInRange(e.inner)
      [] e.tag = "Capture" -> RepeatsInRange(e.inner)
      [] e.tag \in {"Concatenate", "Alternate"} ->
            \A k \in 1..Len(e.inners) : RepeatsInRange(e.inners[k])
      [] OTHER -> TRUE

IsDigit(c) == Ord["0"] <= c /\ c <= Ord["9"]

\* The digits of r from the position i on.
RECURSIVE DigitRun(_, _)
DigitRun(r, i) ==
    IF i > Len(r) \/ ~IsDigit(r[i]) THEN <<>>
    ELSE <<r[i]>> \o DigitRun(r, i + 1)

\* The digit strings d without its leading zeros, and its value when it is
\* short enough to have one here.
RECURSIVE StripZeros(_)
StripZeros(d) ==
    IF d # <<>> /\ d[1] = Ord["0"] THEN StripZeros(Tail(d)) ELSE d
RECURSIVE Value(_)
Value(d) ==
    IF d = <<>> THEN 0 ELSE 10 * Value(Front(d)) + (Last(d) - Ord["0"])

\* The number the digits d write is above REPEAT_MAX (which has six digits).
Exceeds(d) ==
    \/ Len(StripZeros(d)) > 6
    \/ Len(StripZeros(d)) = 6 /\ Value(StripZeros(d)) > REPEAT_MAX

\* The counts of a pattern a{M,N} or a{N}: M (or N), and N after the comma.
FirstCount(r) == DigitRun(r, 3)
SecondCount(r) ==
    IF Len(r) >= 3 + Len(FirstCount(r)) /\ r[3 + Len(FirstCount(r))] = Ord[","]
    THEN DigitRun(r, 4 + Len(FirstCount(r))) ELSE <<>>
IsCounted(r) == Len(r) >= 3 /\ r[1] = Ord["a"] /\ r[2] = Ord["{"]

\* The largest value the accumulator of p_number may take: it is below
\* 2^32 = 4294967296.
AccumulatorMax == 10 * REPEAT_MAX + 9

\* Every value 10 * n + digit that p_number computes on the digits d stays
\* in range: n is what p_number made of the digits before.
AccumulatorInRange(d) ==
    \A j \in 1..Len(d) :
        (/\ p_number(State_new(SubSeq(d, 1, j - 1))).err = ""
         /\ p_number(State_new(SubSeq(d, 1, j - 1))).v # None)
        => /\ p_number(State_new(SubSeq(d, 1, j - 1))).v[1] <= REPEAT_MAX
           /\ 10 * p_number(State_new(SubSeq(d, 1, j - 1))).v[1] + (d[j] - Ord["0"])
                 <= AccumulatorMax

\* C21: every count the parser accepts is at most REPEAT_MAX and a count
\* above it aborts the parse; the accumulator 10 * n + digit stays within
\* 32 bits whatever the number of digits; every Repeat the parser returns
\* has min <= max when max is set.
C21_CountsInRange ==
    /\ ast # None => RepeatsInRange(ast[1])
    /\ (phase # "start" /\ IsCounted(regex)) =>
          /\ (Exceeds(FirstCount(regex)) \/ Exceeds(SecondCount(regex))) =>
                (ast = None /\ failure = "repeat must be <= 100000")
          /\ AccumulatorInRange(FirstCount(regex))
          /\ AccumulatorInRange(SecondCount(regex))

\* C21: a{99999,100000} was parsed, with the largest count there is.
C21_Witness ==
    /\ phase = "parsed" /\ ast # None
    /\ ast[1] = Repeat(Range(Ord["a"], Ord["a"]), 99999, Some(REPEAT_MAX), "Greedy")

\* Some Range of e is the character c alone, as a literal c gives.
RECURSIVE HasLiteral(_, _)
HasLiteral(e, c) ==
    CASE e.tag = "Range" -> e.lo = c /\ e.hi = c
      [] e.tag \in {"Repeat", "Capture"} -> HasLiteral(e.inner, c)
      [] e.tag \in {"Concatenate", "Alternate"} ->
            \E k \in 1..Len(e.inners) : HasLiteral(e.inners[k], c)
      [] OTHER -> FALSE

\* The position after the digits of r that start at i.
AfterDigits(r, i) == i + Len(DigitRun(r, i))

\* The { at the position i of r opens one of {N}, {M,}, {,N}, {M,N}, {,}.
BraceForm(r, i) ==
    \/ /\ DigitRun(r, i + 1) # <<>>
       /\ AfterDigits(r, i + 1) <= Len(r)
       /\ r[AfterDigits(r, i + 1)] = Ord["}"]
    \/ /\ AfterDigits(r, i + 1) <= Len(r)
       /\ r[AfterDigits(r, i + 1)] = Ord[","]
       /\ AfterDigits(r, AfterDigits(r, i + 1) + 1) <= Len(r)
       /\ r[AfterDigits(r, AfterDigits(r, i + 1) + 1)] = Ord["}"]

\* The interval that the form a{...} of the pattern r writes.
HasComma(r) == r[AfterDigits(r, 3)] = Ord[","]
FormMin(r) == Value(StripZeros(FirstCount(r)))
FormMax(r) ==
    IF ~HasComma(r) THEN Some(FormMin(r))
    ELSE IF SecondCount(r) = <<>> THEN None
    ELSE Some(Value(StripZeros(SecondCount(r))))

\* The pattern r is a, one brace form, and nothing else.
IsOneForm(r) ==
    /\ IsCounted(r) /\ BraceForm(r, 2)
    /\ r[Len(r)] = Ord["}"]
    /\ Cardinality({ k \in 1..Len(r) : r[k] = Ord["}"] }) = 1

\* C22: a { outside a bracket class is parsed as one of {N}, {M,}, {,N},
\* {M,N}, {,}, giving (N,N), (M,unbounded), (0,N), (M,N), (0,unbounded), or
\* the parse fails; it never becomes a literal { of the expression.
C22_BracesAreStrict ==
    phase = "parsed" =>
        /\ ~HasLiteral(ast[1], Ord["{"])
        /\ \A i \in 1..Len(regex) : regex[i] = Ord["{"] => BraceForm(regex, i)
        /\ IsOneForm(regex) =>
              ast[1] = Repeat(Range(Ord["a"], Ord["a"]), FormMin(regex),
                              FormMax(regex), "Greedy")

\* C22: a{,} was parsed as a repeat from 0 without upper bound.
C22_Witness ==
    /\ phase = "parsed" /\ regex = Str(<<"a", "{", ",", "}">>)
    /\ ast[1] = Repeat(Range(Ord["a"], Ord["a"]), 0, None, "Greedy")

\* The pattern r is one lookahead group, (?=...) or (?!...), whose body is
\* a pattern that parses.
IsLookahead(r) ==
    /\ Len(r) >= 4
    /\ r[1] = Ord["("] /\ r[2] = Ord["?"] /\ r[3] \in { Ord["="], Ord["!"] }
    /\ r[Len(r)] = Ord[")"]
    /\ parse(SubSeq(r, 4, Len(r) - 1)).err = ""

\* C23: the parser accepts the lookahead groups (?=...) and (?!...) with a
\* well-formed body and closing parenthesis, and returns an expression.
C23_LookaheadParses ==
    (phase # "start" /\ IsLookahead(regex)) => (phase = "parsed" /\ ast # None)

\* The expression e is a class that holds the character c.
ClassHolds(e, c) ==
    /\ e.tag = "Alternate"
    /\ \E k \in 1..Len(e.inners) :
          e.inners[k].tag = "Range" /\ e.inners[k].lo <= c /\ c <= e.inners[k].hi

\* The characters of r from the position i to the one before the closing
\* bracket are letters.
LettersUpTo(r, i) ==
    \A k \in i..(Len(r) - 1) : r[k] \in { Ord["a"], Ord["z"] }

\* The pattern r is a bracket class whose last character is a -, as [a-].
DashLast(r) ==
    /\ Len(r) >= 3 /\ r[1] = Ord["["] /\ r[Len(r)] = Ord["]"]
    /\ r[Len(r) - 1] = Ord["-"]
    /\ \A k \in 2..(Len(r) - 2) : r[k] \in { Ord["a"], Ord["z"] }

\* The pattern r is a bracket class whose first character is a -, with
\* letters after it, as [-z].
DashFirst(r) ==
    /\ Len(r) >= 4 /\ r[1] = Ord["["] /\ r[Len(r)] = Ord["]"]
    /\ r[2] = Ord["-"]
    /\ LettersUpTo(r, 3)

\* A - before the closing bracket is a literal - of the class.
DashLastIsLiteral ==
    (phase # "start" /\ DashLast(regex)) =>
        (phase = "parsed" /\ ClassHolds(ast[1], Ord["-"]))

\* C24: in a bracket class, a - directly followed by the closing ] adds the
\* literal - to the class, and so does a - with no token before it, as in
\* [-z].
C24_DashIsLiteral ==
    /\ DashLastIsLiteral
    /\ (phase # "start" /\ DashFirst(regex)) =>
          (phase = "parsed" /\ ClassHolds(ast[1], Ord["-"]))

\* The cursor at the position i of the pattern r.
CursorAt(r, i) == State_new(SubSeq(r, i, Len(r)))

\* C29: every retreat the parser makes comes right after an advance with
\* no other retreat in between, so "nowhere to retreat" is never raised;
\* and a retreat gives back the position the cursor had before the advance,
\* at every position of the pattern, the end included.
C29_RetreatFollowsAdvance ==
    /\ failure # "nowhere to retreat"
    /\ \A i \in 1..(Len(regex) + 1) :
          /\ retreat(advance(CursorAt(regex, i)).s).err = ""
          /\ retreat(advance(CursorAt(regex, i)).s).s.input = CursorAt(regex, i).input

\* C29: a pattern with a comment group was parsed; p_comment retreated at
\* the closing parenthesis, which p_group then read.
C29_Witness ==
    /\ phase = "parsed"
    /\ regex = Str(<<"(", "?", "#", ")", "a">>)
    /\ ast = Some(Range(Ord["a"], Ord["a"]))

\* The thread list tl of a VM on the program c is well formed: no pc
\* twice, the dedup set is the set of the pcs, and every pc is the index of
\* a Range or a Match.
WellFormed(tl, c) ==
    /\ \A i, j \in 1..Len(tl.threads) : i # j => tl.threads[i] # tl.threads[j]
    /\ tl.indices = { tl.threads[i] : i \in 1..Len(tl.threads) }
    /\ \A i \in 1..Len(tl.threads) :
          /\ 0 <= tl.threads[i] /\ tl.threads[i] < Len(c)
          /\ c[tl.threads[i] + 1].op \in {"Range", "Match"}

\* C25: after VM::new and after every feed the current thread list holds
\* no two threads with the same pc, its dedup set is the set of its pcs,
\* every pc is inside the program at a Range or a Match, and the next list
\* is empty.
C25_ThreadListsWellFormed ==
    phase = "vm" =>
        /\ WellFormed(threads, code)
        /\ next.threads = <<>> /\ next.indices = {}

\* C25: a feed left three threads or more, two of which were reached twice.
C25_Witness ==
    /\ phase = "vm" /\ fed = Str(<<"a">>)
    /\ regex = Str(<<"a", "*", "a", "*", "b">>)
    /\ Len(threads.threads) >= 3

\* The consuming instructions met from pc, depth first with the target of
\* higher priority first, each as often as it is met; an instruction that
\* is its own non-consuming successor is not entered again.
RECURSIVE DepthFirst(_, _, _)
DepthFirst(c, pc, path) ==
    IF pc < 0 \/ pc >= Len(c) \/ pc \in path THEN <<>>
    ELSE CASE c[pc + 1].op = "Empty" -> DepthFirst(c, pc + 1, path \cup {pc})
           [] c[pc + 1].op = "Jump" -> DepthFirst(c, c[pc + 1].to, path \cup {pc})
           [] c[pc + 1].op = "Fork" ->
                DepthFirst(c, pc + 1, path \cup {pc})
                    \o DepthFirst(c, c[pc + 1].to, path \cup {pc})
           [] c[pc + 1].op = "GFork" ->
                DepthFirst(c, c[pc + 1].to, path \cup {pc})
                    \o DepthFirst(c, pc + 1, path \cup {pc})
           [] OTHER -> <<pc>>

\* The sequence seq after the sequence old, without what is in old or
\* earlier in seq.
RECURSIVE AddNew(_, _)
AddNew(old, seq) ==
    IF seq = <<>> THEN old
    ELSE IF \E i \in 1..Len(old) : old[i] = Head(seq) THEN AddNew(old, Tail(seq))
    ELSE AddNew(Append(old, Head(seq)), Tail(seq))

\* follow called on pc with the thread list tl returns, has added what the
\* claim says, and tells whether a Match was among what it reached.
FollowAdds(c, pc, tl) ==
    /\ follow(pc, c, tl, {}).err = ""
    /\ follow(pc, c, tl, {}).tl.threads = AddNew(tl.threads, DepthFirst(c, pc, {}))
    /\ follow(pc, c, tl, {}).hit
          <=> \E q \in Leaves(c, {pc}) : c[q + 1].op = "Match"

\* C26: follow adds to the thread list every Range or Match reachable from
\* its start through non-consuming instructions and not yet in the list,
\* depth first with the target of higher priority first, goes on after an
\* accept, and returns true iff an accept was reached: from every
\* instruction of the program, into the empty list and into the current one.
C26_FollowAddsInOrder ==
    phase \in {"code", "vm"} =>
        \A pc \in 0..(Len(code) - 1) :
            FollowAdds(code, pc, ThreadList_new) /\ FollowAdds(code, pc, threads)

\* The number of instructions of the expression e.
Size(e) == Len(compile_expr(<<>>, e).code)

\* Where the i-th branch of an alternation that starts at 0 starts: each
\* branch but the last is a fork, the branch's code and a jump.
RECURSIVE BranchStart(_, _)
BranchStart(inners, i) ==
    IF i = 1 THEN 0
    ELSE BranchStart(inners, i - 1) + 1 + Size(inners[i - 1]) + 1

\* The instruction directly after the last branch.
BranchesEnd(inners) == BranchStart(inners, Len(inners)) + Size(inners[Len(inners)])

\* The first instruction of the code of the i-th expression.
BranchEntry(inners, i) ==
    IF i < Len(inners) THEN BranchStart(inners, i) + 1 ELSE BranchStart(inners, i)

\* The first branch from whose code follow comes to the thread pc.
FirstBranch(c, inners, pc) ==
    CHOOSE i \in 1..Len(inners) :
        /\ pc \in Leaves(c, {BranchEntry(inners, i)})
        /\ \A k \in 1..(i - 1) : pc \notin Leaves(c, {BranchEntry(inners, k)})

\* The threads of an earlier branch come before those of a later one.
BranchOrder(c, inners, ts) ==
    \A p, q \in 1..Len(ts) :
        p < q => FirstBranch(c, inners, ts[p]) <= FirstBranch(c, inners, ts[q])

\* C27: for Alternate([e1, ..., en]), n >= 1, the byte code has a Fork
\* before each of the branches 1..n-1, resolved to the start of the next
\* branch, and a Jump after each of them, resolved to the instruction
\* directly after branch n; so follow from the start of the alternation
\* adds the threads of an earlier branch before those of a later one.
C27_AlternateLayout ==
    (phase = "code" /\ ast[1].tag = "Alternate" /\ Len(ast[1].inners) >= 1) =>
        /\ \A i \in 1..(Len(ast[1].inners) - 1) :
              /\ code[BranchStart(ast[1].inners, i) + 1]
                    = IFork(BranchStart(ast[1].inners, i + 1))
              /\ code[BranchStart(ast[1].inners, i + 1)]
                    = IJump(BranchesEnd(ast[1].inners))
        /\ Cardinality({ pc \in Forks(code) : \E i \in 1..(Len(ast[1].inners) - 1) :
                            pc = BranchStart(ast[1].inners, i) })
              = Len(ast[1].inners) - 1
        /\ BranchesEnd(ast[1].inners) = Len(code) - 1
        /\ follow(0, code, ThreadList_new, {}).err = ""
        /\ BranchOrder(code, ast[1].inners, follow(0, code, ThreadList_new, {}).tl.threads)

\* C27: the code of a|b|c, two forks and two jumps, and the threads of a,
\* b and c in this order after VM::new.
C27_Witness ==
    /\ phase = "vm" /\ fed = <<>>
    /\ regex = Str(<<"a", "|", "b", "|", "c">>)
    /\ threads.threads = <<1, 4, 6>>

\* The code c is complete: no placeholder is left, the last instruction is
\* Match, and every target is the index of an instruction.
Complete(c) ==
    /\ c # <<>> /\ c[Len(c)].op = "Match"
    /\ \A k \in 1..Len(c) :
          /\ c[k].op # "Empty"
          /\ c[k].op \in {"Jump", "Fork", "GFork"} => (0 <= c[k].to /\ c[k].to < Len(c))

\* C28: for every expression without Capture that the parser returns, the
\* byte-code compiler returns code without an Empty placeholder, ending in
\* Match, with every Jump, Fork and GFork target a valid index, and
\* Inst::replace is never applied to an instruction other than Empty.
C28_CodeIsComplete ==
    (ast # None /\ ~HasCapture(ast[1])) =>
        /\ compile_code(ast[1]).err = ""
        /\ phase \in {"code", "vm", "done"} => Complete(code)

\* The code points the earlier class is asked about: the points its ranges
\* are made of and their neighbours.
OldProbes ==
    { c \in UNION { {q - 1, q, q + 1} : q \in OldPoints } : char_from_u32(c) # None }

\* The ranges are in ascending order of lo.
SortedByLo(ranges) ==
    \A k \in 1..(Len(ranges) - 1) : lo(ranges[k]) <= lo(ranges[k + 1])

\* C30: for every non-empty list of valid ranges the earlier CharClass::new
\* returns a list that is sorted by lo, has no two overlapping or touching
\* ranges, and covers the code points of the input.
C30_EarlierNewCoalesces ==
    (stage = "new" /\ rs # <<>>) =>
        /\ hist[1].err = ""
        /\ SortedByLo(hist[1].ranges)
        /\ Normalized(hist[1].ranges)
        /\ \A c \in OldProbes : Covers(hist[1].ranges, c) <=> Covers(rs, c)

=============================================================================
